---------------------------- MODULE Spec2Model ----------------------------
(***************************************************************************)
(* Model of the acquisition-and-clustering pipeline of the fire analysis   *)
(* tool: FIRMSHandler.fetch_fire_data and FIRMSHandler._apply_dbscan       *)
(* (app/core/firms_handler.py, latest revision 20250324114450).            *)
(*                                                                         *)
(* Representation:                                                         *)
(*   - a calendar date is its day number counted from 2000-01-01 (= 0);    *)
(*     the '%Y-%m-%d' strings the code compares are zero padded, so their  *)
(*     lexicographic order is the order of the day numbers;                *)
(*   - latitudes, longitudes, eps and the scaled day are integers in units *)
(*     of 0.001 (millidegrees): 0.01 is 10, and day_num * 0.001 * m is     *)
(*     day_num * m;                                                        *)
(*   - a dataset identifier is the sequence of its tokens, the suffix      *)
(*     "_NRT" / "_SP" being one token, so that `"_NRT" in dataset` and     *)
(*     `dataset.replace("_NRT", "_SP")` are computed, not assumed;         *)
(*   - a DataFrame is the sequence of its rows; a row is a record with     *)
(*     fields id, latitude, longitude, acq_date, acq_date_dtype, day_num,  *)
(*     cluster, osm_match; cluster (day_num, osm_match) is the empty       *)
(*     sequence in a table without the 'cluster' ('day_num', 'osm_match')  *)
(*     column, else the one-element sequence of the value; acq_date_dtype  *)
(*     is the dtype of the 'acq_date' column:                              *)
(*     "object" for the strings read from the CSV body, "datetime64[ns]"   *)
(*     once pd.to_datetime has converted them.                             *)
(***************************************************************************)
EXTENDS Integers, Sequences, FiniteSets, TLC

VARIABLES
    args,              \* the arguments of the call (never assigned by the code)
    today,             \* datetime.now().date()
    archive,           \* the rows the remote archive holds (environment)
    geometry,          \* what get_country_geojson / shapely give (environment)
    pc,                \* position in fetch_fire_data
    dataset,           \* local `dataset` (reassigned by substitution / fallback)
    original_dataset,  \* local `original_dataset`
    need_historical,   \* local `need_historical`
    start_date_date,   \* local `start_date_date`
    end_date_date,     \* local `end_date_date`
    bbox,              \* local `bbox`
    current_date,      \* loop variable of the chunk planning loop
    date_chunks,       \* local `date_chunks`
    cell,              \* <<box index, chunk index>> of the next request
    all_results,       \* local `all_results`
    result,            \* the value returned (NotReturned while running)
    requests,          \* every archive request issued so far, in order
    responses,         \* what the archive answered to each chunk request
    switches,          \* how many times the run fell back to original_dataset
    probes,            \* per test call, in order: did it parse to an empty table
    given,             \* the table the last direct call of _apply_dbscan received
    trail,             \* the pipeline states the run has been in, in order
    handler,           \* `self`: the FIRMSHandler object the running call is made on
    invocation,        \* which call of fetch_fire_data is running
    session_timeout,   \* per handler object, the attribute self.session.timeout
    writers,           \* per handler object, the calls that assigned session.timeout
    suspended          \* the locals of a second call that is not running now

vars == <<args, today, archive, geometry, pc, dataset, original_dataset,
          need_historical, start_date_date, end_date_date, bbox, current_date,
          date_chunks, cell, all_results, result, requests, responses, switches,
          probes, given, trail, handler, invocation, session_timeout, writers,
          suspended>>

\* Python's None where a sequence, a date or a label may stand: an optional
\* value is the empty sequence or the one-element sequence of its value.  A
\* missing country is the empty string.
None == <<>>
Some(v) == <<v>>

\* the value returned: [kind |-> "NotReturned"] while the call runs, then
\* ReturnNone or ReturnTable(rows)
NotReturned == [kind |-> "NotReturned", rows |-> <<>>]
ReturnNone == [kind |-> "None", rows |-> <<>>]
ReturnTable(df) == [kind |-> "table", rows |-> df]

-----------------------------------------------------------------------------
(* Dataset catalogue: the fallback table of fetch_fire_data (the settings   *)
(* module defines no DATASET_AVAILABILITY, so the import fails).            *)

MODIS_NRT        == <<"MODIS", "_NRT">>
MODIS_SP         == <<"MODIS", "_SP">>
VIIRS_NOAA20_NRT == <<"VIIRS_NOAA20", "_NRT">>
VIIRS_NOAA20_SP  == <<"VIIRS_NOAA20", "_SP">>
VIIRS_NOAA21_NRT == <<"VIIRS_NOAA21", "_NRT">>
VIIRS_SNPP_NRT   == <<"VIIRS_SNPP", "_NRT">>
VIIRS_SNPP_SP    == <<"VIIRS_SNPP", "_SP">>
LANDSAT_NRT      == <<"LANDSAT", "_NRT">>

\* 2024-12-01 = 9101, 2025-03-24 = 9214, 2000-11-01 = 305, 2024-12-31 = 9131,
\* 2018-04-01 = 6665, 2024-01-17 = 8782, 2025-01-01 = 9132, 2012-01-20 = 4402,
\* 2022-06-20 = 8206
DATASET_AVAILABILITY ==
    { [id |-> MODIS_NRT,        min_date |-> 9101, max_date |-> 9214],
      [id |-> MODIS_SP,         min_date |-> 305,  max_date |-> 9131],
      [id |-> VIIRS_NOAA20_NRT, min_date |-> 9101, max_date |-> 9214],
      [id |-> VIIRS_NOAA20_SP,  min_date |-> 6665, max_date |-> 9214],
      [id |-> VIIRS_NOAA21_NRT, min_date |-> 8782, max_date |-> 9214],
      [id |-> VIIRS_SNPP_NRT,   min_date |-> 9132, max_date |-> 9214],
      [id |-> VIIRS_SNPP_SP,    min_date |-> 4402, max_date |-> 9214],
      [id |-> LANDSAT_NRT,      min_date |-> 8206, max_date |-> 9214] }

\* `dataset in DATASET_AVAILABILITY`
Registered(ds) == \E d \in DATASET_AVAILABILITY : d.id = ds

\* `DATASET_AVAILABILITY[dataset]`
Availability(ds) == CHOOSE d \in DATASET_AVAILABILITY : d.id = ds

\* `"_NRT" in dataset`
HasNRT(ds) == \E i \in 1..Len(ds) : ds[i] = "_NRT"

\* `dataset.replace("_NRT", "_SP")`
ReplaceNRT(ds) == [i \in 1..Len(ds) |-> IF ds[i] = "_NRT" THEN "_SP" ELSE ds[i]]

\* variant of NeedHistorical: the 30th day already counts as historical
NeedHistorical_AtLeast(t, s) == (t - s) >= 30

\* `need_historical = (today - start_date_date).days > 30`
NeedHistorical(t, s) == (t - s) > 30

\* lines 216-228: the dataset the run goes on with
Substitute(ds, nh) ==
    IF nh /\ HasNRT(ds)
    THEN IF Registered(ReplaceNRT(ds)) THEN ReplaceNRT(ds) ELSE VIIRS_SNPP_SP
    ELSE ds

-----------------------------------------------------------------------------
(* Regions.  A bounding box "min_lon,min_lat,max_lon,max_lat" is the        *)
(* sequence of its four numbers, in millidegrees.                           *)

\* the items of the dict literal settings.COUNTRY_BBOXES for the countries of
\* the model, in the order of the source (lines 41, 45, 48, 132)
COUNTRY_BBOXES_items ==
    << [key |-> "Afghanistan", value |-> <<60520, 29310, 75150, 38480>>],
       [key |-> "India",       value |-> <<68000, 7000, 97000, 37000>>],
       [key |-> "Russia",      value |-> <<19250, 41151, 180000, 81200>>],
       [key |-> "Afghanistan", value |-> <<60500, 29400, 74900, 38500>>] >>

\* settings.COUNTRY_BBOXES.get(c, None): of the items of a dict literal with
\* the same key the last one is kept; a country that is not a key gives None
COUNTRY_BBOXES(c) ==
    LET hits == {i \in 1..Len(COUNTRY_BBOXES_items) : COUNTRY_BBOXES_items[i].key = c}
    IN  IF hits = {} THEN None
        ELSE COUNTRY_BBOXES_items[CHOOSE i \in hits : \A j \in hits : j <= i].value

\* variant of get_country_bbox: the whole world for a country that is not a key
get_country_bbox_World(c) ==
    IF COUNTRY_BBOXES(c) = None
    THEN <<-180000, -90000, 180000, 90000>>
    ELSE COUNTRY_BBOXES(c)

\* FIRMSHandler.get_country_bbox
get_country_bbox(c) == COUNTRY_BBOXES(c)

large_countries ==
    {"United States", "China", "Russia", "Canada", "Brazil", "Australia", "India"}

west_bbox    == <<19250, 41151, 60000, 81200>>
central_bbox == <<60000, 41151, 120000, 81200>>
east_bbox    == <<120000, 41151, 180000, 81200>>

\* the boxes the chunk requests of a run go to, in the order of the loops
FetchBoxes(c, bb) ==
    IF c \in large_countries /\ c = "Russia"
    THEN <<west_bbox, central_bbox, east_bbox>>
    ELSE <<bb>>

\* the bounding-box mask of lines 575-580 (and 72-77)
InBbox(r, bb) ==
    /\ r.longitude >= bb[1]
    /\ r.longitude <= bb[3]
    /\ r.latitude >= bb[2]
    /\ r.latitude <= bb[4]

\* df[bbox_mask]: the rows inside the box, in order
BboxFilter(df, bb) ==
    LET Keep(r) == InBbox(r, bb)
    IN  SelectSeq(df, Keep)

\* chunk_df[date_mask] of lines 549-550 / 506-507 / 406-407
DateMask(df, chunk_start, chunk_end) ==
    LET Keep(r) == r.acq_date >= chunk_start /\ r.acq_date <= chunk_end
    IN  SelectSeq(df, Keep)

\* variant of Concat: the chunk replaces what was aggregated before it
Concat_Overwrite(all, chunk) == chunk

\* pd.concat([all_results, filtered_chunk], ignore_index=True)
Concat(all, chunk) == all \o chunk

\* df['cluster'] = labels: the rows with their labels set
SetLabels(df, labels) ==
    [i \in 1..Len(df) |-> [df[i] EXCEPT !.cluster = Some(labels[i])]]

Min(a, b) == IF a <= b THEN a ELSE b

-----------------------------------------------------------------------------
(* FIRMSHandler._apply_dbscan.  sklearn's DBSCAN(eps, min_samples).fit is   *)
(* modelled by its algorithm: neighbourhoods by Euclidean distance <= eps   *)
(* (a point is its own neighbour), core points with at least min_samples    *)
(* neighbours, clusters grown from each unlabelled core point in row order. *)

\* day_scale = 0.001, in units of 0.001
day_scale == 1

\* df['day_num'] = (df[date_col] - df[date_col].min()).dt.days
DayNum(df) ==
    LET min_date == CHOOSE d \in {df[i].acq_date : i \in 1..Len(df)} :
                        \A j \in 1..Len(df) : d <= df[j].acq_date
    IN  [i \in 1..Len(df) |-> df[i].acq_date - min_date]

\* lines 100-101: df[date_col] = pd.to_datetime(df[date_col]) when the column
\* does not hold datetimes yet; the day of each row is kept
ToDatetime(df) ==
    [i \in 1..Len(df) |-> [df[i] EXCEPT !.acq_date_dtype = "datetime64[ns]"]]

\* line 105: the column 'day_num' is added to the table
SetDayNum(df) ==
    [i \in 1..Len(df) |-> [df[i] EXCEPT !.day_num = Some(DayNum(df)[i])]]

\* coords['scaled_day'] = df['day_num'] * day_scale * max_time_diff_days
ScaledDay(day_num, max_time_diff_days) == day_num * day_scale * max_time_diff_days

\* coords: (latitude, longitude, scaled_day) of every row
Coords(df, max_time_diff_days) ==
    [i \in 1..Len(df) |->
        <<df[i].latitude, df[i].longitude,
          ScaledDay(DayNum(df)[i], max_time_diff_days)>>]

\* squared Euclidean distance of two 3-vectors
Dist2(a, b) ==
    (a[1] - b[1]) * (a[1] - b[1]) + (a[2] - b[2]) * (a[2] - b[2])
      + (a[3] - b[3]) * (a[3] - b[3])

\* radius_neighbors: the rows within eps of row i, i included
Neighborhood(coords, i, eps) ==
    {j \in 1..Len(coords) : Dist2(coords[i], coords[j]) <= eps * eps}

\* variant of IsCore: the row itself is not counted among its neighbours
IsCore_Strict(coords, i, eps, min_samples) ==
    Cardinality(Neighborhood(coords, i, eps) \ {i}) >= min_samples

\* core_samples: rows whose neighbourhood holds at least min_samples rows
IsCore(coords, i, eps, min_samples) ==
    Cardinality(Neighborhood(coords, i, eps)) >= min_samples

\* dbscan_inner's stack loop: every unlabelled row reached from the seed,
\* expanding only through core rows
RECURSIVE Expand(_, _, _, _, _, _)
Expand(coords, eps, min_samples, labels, frontier, members) ==
    LET reached == UNION {Neighborhood(coords, c, eps) : c \in frontier}
        new == {v \in reached : labels[v] = -1 /\ v \notin members}
    IN  IF new = {} THEN members
        ELSE Expand(coords, eps, min_samples, labels,
                    {v \in new : IsCore(coords, v, eps, min_samples)},
                    members \cup new)

\* dbscan_inner's outer loop over the rows, from row i on
RECURSIVE DbscanFrom(_, _, _, _, _, _)
DbscanFrom(coords, eps, min_samples, i, labels, label_num) ==
    IF i > Len(coords) THEN labels
    ELSE IF labels[i] # -1 \/ ~IsCore(coords, i, eps, min_samples)
    THEN DbscanFrom(coords, eps, min_samples, i + 1, labels, label_num)
    ELSE LET members == Expand(coords, eps, min_samples, labels, {i}, {i})
         IN  DbscanFrom(coords, eps, min_samples, i + 1,
                        [j \in 1..Len(coords) |->
                            IF j \in members THEN label_num ELSE labels[j]],
                        label_num + 1)

\* DBSCAN(eps=eps, min_samples=min_samples).fit(coords).labels_
DBSCAN(coords, eps, min_samples) ==
    DbscanFrom(coords, eps, min_samples, 1, [i \in 1..Len(coords) |-> -1], 0)

\* variant of ApplyDbscan: the bounding-box filter comes before the test of
\* the number of rows
ApplyDbscan_FilterFirst(df, eps, min_samples, bb, max_time_diff_days) ==
    LET filtered_df == IF bb # None /\ Len(bb) = 4 THEN BboxFilter(df, bb) ELSE df
    IN  IF Len(filtered_df) < min_samples
        THEN SetLabels(filtered_df, [i \in 1..Len(filtered_df) |-> -1])
        ELSE SetLabels(SetDayNum(ToDatetime(filtered_df)),
                       DBSCAN(Coords(filtered_df, max_time_diff_days),
                              eps, min_samples))

\* _apply_dbscan(df, eps, min_samples, bbox, max_time_diff_days)
ApplyDbscan(df, eps, min_samples, bb, max_time_diff_days) ==
    IF Len(df) < min_samples
    THEN SetLabels(df, [i \in 1..Len(df) |-> -1])
    ELSE LET filtered_df == IF bb # None /\ Len(bb) = 4 THEN BboxFilter(df, bb) ELSE df
         IN  IF Len(filtered_df) < min_samples
             THEN SetLabels(filtered_df, [i \in 1..Len(filtered_df) |-> -1])
             ELSE SetLabels(SetDayNum(ToDatetime(filtered_df)),
                            DBSCAN(Coords(filtered_df, max_time_diff_days),
                                   eps, min_samples))

-----------------------------------------------------------------------------
(* The remote archive.  A request is [kind, dataset, bbox, days, date]     *)
(* (date = None: the URL without a start date, the most recent `days`       *)
(* days).  A chunk request raises (transport error, non-2xx status),        *)
(* returns a body with the marker "Invalid", a body with the marker         *)
(* "Error", or a CSV body: the rows the archive holds for the box and the   *)
(* days, or more than that (adjacent days, or rows outside the box).  A     *)
(* body with the marker "Error" is an error text ("error_body") or a CSV    *)
(* body in which the marker occurs ("error_csv").                           *)

ChunkKinds == {"raise", "invalid", "error_body", "error_csv", "ok"}
OverReturns == {"exact", "days", "area"}
ProbeKinds == {"raise", "invalid", "empty", "records"}

WindowStart(req, t) == IF req.date = None THEN t - req.days + 1 ELSE req.date[1]
WindowEnd(req, t) == WindowStart(req, t) + req.days - 1

ArchiveAnswer(req, over, t) ==
    LET slack == IF over = "days" THEN 1 ELSE 0
        Held(r) == /\ r.acq_date >= WindowStart(req, t) - slack
                   /\ r.acq_date <= WindowEnd(req, t) + slack
                   /\ (over = "area" \/ InBbox(r, req.bbox))
    IN  SelectSeq(archive, Held)

-----------------------------------------------------------------------------
(* fetch_fire_data, step by step                                            *)

\* lines 176-199: a start / end date that cannot be parsed gets a default
ParseDate(v, default) == IF v = None THEN default ELSE v[1]

\* lines 243-245 and 247-249
ClampStart(s, min_date) == IF s < min_date THEN min_date ELSE s
ClampEnd(e, max_date) == IF e > max_date THEN max_date ELSE e

\* variant of ShouldFallBack: the end date is not looked at
ShouldFallBack_NoRecency(nh, ds, orig, e, t) == nh /\ ds # orig

\* line 295: whether an empty probe makes the run go back to original_dataset
ShouldFallBack(nh, ds, orig, e, t) == nh /\ ds # orig /\ (e - t) > -30

\* variant of ChunkEnd: chunk_days is not capped at 10
ChunkEnd_NoCap(cur, chunk_days, e) == Min(cur + chunk_days - 1, e)

\* line 363: chunk_end
ChunkEnd(cur, chunk_days, e) == Min(cur + Min(10, chunk_days) - 1, e)

\* the timeouts given to session.get, in seconds: lines 285 / 301 / 538,
\* line 495, lines 401 / 429 / 457
default_timeout == 60
large_country_timeout == 120
russia_timeout == 45

\* the timeout of the chunk requests of a run for country c
ChunkTimeout(c) ==
    IF c \in large_countries
    THEN IF c = "Russia" THEN russia_timeout ELSE large_country_timeout
    ELSE default_timeout

\* the URLs are f-strings: the names of the values that make up the path of
\* a URL with a start date (lines 281, 396, 486, 529) and of the URL of the
\* most recent 7 days (lines 489, 532)
DatedUrl == <<"base_url", "api_key", "dataset", "bbox", "days", "date">>
RecentUrl == <<"base_url", "api_key", "dataset", "bbox", "days">>

\* lines 528-534 / 485-491 / 396-398: the request of chunk i (of n) for box bx
ChunkRequest(c, nh, ds, orig, bx, i, n, chunk) ==
    LET days_in_chunk == chunk[2] - chunk[1] + 1
        dated == [kind |-> "chunk", dataset |-> ds, bbox |-> bx,
                  days |-> days_in_chunk, date |-> Some(chunk[1]),
                  timeout |-> ChunkTimeout(c), url |-> DatedUrl]
    IN  IF c \in large_countries /\ c = "Russia" THEN dated
        ELSE IF nh THEN dated
        ELSE IF i = 1 /\ n = 1 /\ days_in_chunk <= 7
             THEN [kind |-> "chunk", dataset |-> orig, bbox |-> bx,
                   days |-> 7, date |-> None, timeout |-> ChunkTimeout(c),
                   url |-> RecentUrl]
             ELSE dated

\* lines 542 / 499 / 403: whether the body passes the test made before it is
\* parsed; the loops of the three boxes of Russia look for "Invalid" only
BodyAccepted(c, kind) ==
    \/ kind = "ok"
    \/ (c \in large_countries /\ c = "Russia"
          /\ kind \in {"error_body", "error_csv"})

\* pd.read_csv of the body: the rows of a CSV body; an error text parses to
\* a frame without rows of detections
ParsedRows(kind, rows) == IF kind \in {"ok", "error_csv"} THEN rows ELSE <<>>

\* what one chunk adds to all_results: nothing when the request raised or the
\* body is refused, else the parsed rows inside the chunk's dates
ChunkRows(c, kind, rows, chunk) ==
    IF BodyAccepted(c, kind)
    THEN DateMask(ParsedRows(kind, rows), chunk[1], chunk[2])
    ELSE <<>>

\* variant of Geofence: no fall back when the polygon holds no row
Geofence_NoFallback(df, bb, country, strict, geom) ==
    LET filtered_df == BboxFilter(df, bb)
        Inside(r) == <<r.longitude, r.latitude>> \in geom.inside
    IN  IF strict /\ country # "" /\ geom.status = "polygon"
        THEN SelectSeq(filtered_df, Inside)
        ELSE filtered_df

\* lines 567-638: the empty table when the bounding box keeps no row (the
\* run then returns None).  geom is what the polygon provider gives:
\* status "unavailable" (no GeoJSON), "raises" (building the polygon or the
\* containment test raises) or "polygon", with the points it contains.
Geofence(df, bb, country, strict, geom) ==
    LET filtered_df == BboxFilter(df, bb)
        Inside(r) == <<r.longitude, r.latitude>> \in geom.inside
        points_in_country == SelectSeq(filtered_df, Inside)
    IN  IF Len(filtered_df) = 0 THEN <<>>
        ELSE IF ~(strict /\ country # "") THEN filtered_df
        ELSE IF geom.status # "polygon" THEN filtered_df
        ELSE IF points_in_country # <<>> THEN points_in_country
        ELSE filtered_df

\* lines 640-647
LabelStage(df, use_clustering, category, eps, min_samples, bb, mtd) ==
    IF use_clustering /\ df # <<>>
    THEN ApplyDbscan(df, eps, min_samples, bb, mtd)
    ELSE IF category = "raw data"
    THEN SetLabels(df, [i \in 1..Len(df) |-> -1])
    ELSE df

\* the pipeline state a position of the code belongs to
StageOf(p) ==
    CASE p \in {"resolve_dataset", "clamp_range", "resolve_bbox"} -> "ResolvingRegion"
      [] p = "probe" -> "Probing"
      [] p = "plan_chunks" -> "PlanningChunks"
      [] p = "fetch" -> "Fetching"
      [] p = "geofence" -> "Geofencing"
      [] p \in {"cluster", "spatial_join"} -> "Clustering"
      [] p = "done" -> "Done"
      [] p = "aborted" -> "Aborted"

Stage == StageOf(pc)

\* trail after a step: the state entered is added when it is a new one
TrailAfter ==
    IF StageOf(pc') = StageOf(pc) THEN trail ELSE Append(trail, StageOf(pc'))

\* the handler objects there are
Handlers == {1, 2}

\* FIRMSHandler.__init__: requests.Session() has no attribute `timeout`, and
\* no call has assigned it
NoTimeoutSet == [h \in Handlers |-> None]
NoWriters == [h \in Handlers |-> {}]

\* the state a call starts in
Start(a, t, arch, geom) ==
    /\ args = a
    /\ today = t
    /\ archive = arch
    /\ geometry = geom
    /\ pc = "resolve_dataset"
    /\ dataset = a.dataset
    /\ original_dataset = a.dataset
    /\ need_historical = FALSE
    /\ start_date_date = 0
    /\ end_date_date = 0
    /\ bbox = a.bbox
    /\ current_date = 0
    /\ date_chunks = <<>>
    /\ cell = <<1, 1>>
    /\ all_results = <<>>
    /\ result = NotReturned
    /\ requests = <<>>
    /\ responses = <<>>
    /\ switches = 0
    /\ probes = <<>>
    /\ given = <<>>
    /\ trail = <<"ResolvingRegion">>
    /\ handler = 1
    /\ invocation = 1
    /\ session_timeout = NoTimeoutSet
    /\ writers = NoWriters
    /\ suspended = None

\* lines 169-236: dates, swap, need_historical, substitution, validity
ResolveDataset ==
    /\ pc = "resolve_dataset"
    /\ LET s0 == ParseDate(args.start_date, today - 7)
           e0 == ParseDate(args.end_date, today)
           s  == IF s0 > e0 THEN e0 ELSE s0
           e  == IF s0 > e0 THEN s0 ELSE e0
           nh == NeedHistorical(today, s)
           ds == Substitute(args.dataset, nh)
       IN  /\ start_date_date' = s
           /\ end_date_date' = e
           /\ need_historical' = nh
           /\ original_dataset' = args.dataset
           /\ dataset' = ds
           /\ IF Registered(ds)
              THEN pc' = "clamp_range" /\ result' = result
              ELSE pc' = "aborted" /\ result' = ReturnNone
    /\ UNCHANGED <<args, today, archive, geometry, bbox, current_date,
                   date_chunks, cell, all_results, requests, responses, switches,
                   probes, given>>
    /\ trail' = TrailAfter
    /\ UNCHANGED <<handler, invocation, session_timeout, writers, suspended>>

\* lines 238-249
ClampRange ==
    /\ pc = "clamp_range"
    /\ start_date_date' = ClampStart(start_date_date, Availability(dataset).min_date)
    /\ end_date_date' = ClampEnd(end_date_date, Availability(dataset).max_date)
    /\ pc' = "resolve_bbox"
    /\ UNCHANGED <<args, today, archive, geometry, dataset, original_dataset,
                   need_historical, bbox, current_date, date_chunks, cell,
                   all_results, result, requests, responses, switches, probes,
                   given>>
    /\ trail' = TrailAfter
    /\ UNCHANGED <<handler, invocation, session_timeout, writers, suspended>>

\* lines 254-266 (no US state is given: the country's box, or None)
ResolveBbox ==
    /\ pc = "resolve_bbox"
    /\ LET bb == IF bbox # None THEN bbox
                 ELSE IF args.country # "" THEN get_country_bbox(args.country)
                 ELSE None
       IN  /\ bbox' = bb
           /\ IF bb = None
              THEN pc' = "aborted" /\ result' = ReturnNone
              ELSE pc' = "probe" /\ result' = result
    /\ UNCHANGED <<args, today, archive, geometry, dataset, original_dataset,
                   need_historical, start_date_date, end_date_date, current_date,
                   date_chunks, cell, all_results, requests, responses, switches,
                   probes, given>>
    /\ trail' = TrailAfter
    /\ UNCHANGED <<handler, invocation, session_timeout, writers, suspended>>

ProbeRequest(ds) ==
    [kind |-> "probe", dataset |-> ds, bbox |-> bbox, days |-> 7,
     date |-> Some(start_date_date), timeout |-> default_timeout,
     url |-> DatedUrl]

\* lines 278-314: the test call, the fallback to original_dataset and its
\* test call; then lines 359-361, the start of chunk planning
Probe ==
    /\ pc = "probe"
    /\ \E first \in ProbeKinds, second \in ProbeKinds :
         IF first = "empty"
            /\ ShouldFallBack(need_historical, dataset, original_dataset,
                              end_date_date, today)
         THEN /\ dataset' = original_dataset
              /\ switches' = switches + 1
              /\ probes' = probes \o <<TRUE, second = "empty">>
              /\ requests' = requests \o <<ProbeRequest(dataset),
                                           ProbeRequest(original_dataset)>>
              /\ IF second = "empty"
                 THEN pc' = "aborted" /\ result' = ReturnNone
                 ELSE pc' = "plan_chunks" /\ result' = result
         ELSE /\ dataset' = dataset
              /\ switches' = switches
              /\ probes' = Append(probes, first = "empty")
              /\ requests' = Append(requests, ProbeRequest(dataset))
              /\ pc' = "plan_chunks"
              /\ result' = result
    /\ current_date' = start_date_date
    /\ date_chunks' = <<>>
    /\ UNCHANGED <<args, today, archive, geometry, original_dataset,
                   need_historical, start_date_date, end_date_date, bbox, cell,
                   all_results, responses, given>>
    /\ trail' = TrailAfter
    /\ UNCHANGED <<handler, invocation, session_timeout, writers, suspended>>

\* the most chunks planned: a loop that has appended that many goes on
\* without its further turns being followed
MaxPlanned == 30

\* lines 362-365: one turn of the chunk planning loop (lines 319-322 run the
\* same loop on the same values before it)
PlanChunk ==
    /\ pc = "plan_chunks"
    /\ current_date <= end_date_date
    /\ Len(date_chunks) < MaxPlanned
    /\ LET chunk_end == ChunkEnd(current_date, args.chunk_days, end_date_date)
       IN  /\ date_chunks' = Append(date_chunks, <<current_date, chunk_end>>)
           /\ current_date' = chunk_end + 1
    /\ UNCHANGED <<args, today, archive, geometry, pc, dataset, original_dataset,
                   need_historical, start_date_date, end_date_date, bbox, cell,
                   all_results, result, requests, responses, switches, probes,
                   given>>
    /\ trail' = TrailAfter
    /\ UNCHANGED <<handler, invocation, session_timeout, writers, suspended>>

\* the loop's exit; line 373, and line 470: the branch of the large countries
\* other than Russia assigns self.session.timeout
PlanExit ==
    /\ pc = "plan_chunks"
    /\ ~(current_date <= end_date_date)
    /\ pc' = "fetch"
    /\ cell' = <<1, 1>>
    /\ all_results' = <<>>
    /\ UNCHANGED <<args, today, archive, geometry, dataset, original_dataset,
                   need_historical, start_date_date, end_date_date, bbox,
                   current_date, date_chunks, result, requests, responses, switches,
                   probes, given>>
    /\ trail' = TrailAfter
    /\ IF args.country \in large_countries /\ args.country # "Russia"
       THEN /\ session_timeout' = [session_timeout EXCEPT
                                     ![handler] = Some(large_country_timeout)]
            /\ writers' = [writers EXCEPT ![handler] = @ \cup {invocation}]
       ELSE UNCHANGED <<session_timeout, writers>>
    /\ UNCHANGED <<handler, invocation, suspended>>

Boxes == FetchBoxes(args.country, bbox)

\* variant of NextCell: every second chunk of a box is passed over
NextCell_SkipOne(c, n) ==
    IF c[2] + 1 < n THEN <<c[1], c[2] + 2>> ELSE <<c[1] + 1, 1>>

\* the cell after cell c = <<box, chunk>> in the order of the loops: the
\* chunks of a box in date order, then the next box (n chunks)
NextCell(c, n) == IF c[2] < n THEN <<c[1], c[2] + 1>> ELSE <<c[1] + 1, 1>>

\* what the log of responses keeps of a failure: "failed" for a request that
\* raised (transport error, non-2xx status, timeout) or a body with the
\* marker "Invalid", "Error" for a body with the marker "Error"
Fault(kind) ==
    CASE kind \in {"raise", "invalid"} -> "failed"
      [] kind \in {"error_body", "error_csv"} -> "Error"
      [] OTHER -> "none"

\* variant of CellsLeft: the loops end after the first box
CellsLeft_FirstBox == date_chunks # <<>> /\ cell[1] <= 1

CellsLeft == date_chunks # <<>> /\ cell[1] <= Len(Boxes)

\* lines 387-411 / 416-439 / 444-467 / 473-513 / 516-556: one request
FetchCell ==
    /\ pc = "fetch"
    /\ CellsLeft
    /\ LET bx    == Boxes[cell[1]]
           i     == cell[2]
           chunk == date_chunks[i]
           req   == ChunkRequest(args.country, need_historical, dataset,
                                 original_dataset, bx, i, Len(date_chunks), chunk)
       IN  \E kind \in ChunkKinds, over \in OverReturns :
             LET accepted == BodyAccepted(args.country, kind)
                 rows == IF accepted
                         THEN ParsedRows(kind, ArchiveAnswer(req, over, today))
                         ELSE <<>>
                 filtered_chunk == ChunkRows(args.country, kind,
                                             ArchiveAnswer(req, over, today), chunk)
             IN  /\ requests' = Append(requests, req)
                 /\ responses' = Append(responses,
                        [ok |-> accepted, rows |-> rows, chunk |-> chunk,
                         fault |-> Fault(kind)])
                 /\ all_results' = IF filtered_chunk # <<>>
                                   THEN Concat(all_results, filtered_chunk)
                                   ELSE all_results
                 /\ cell' = NextCell(cell, Len(date_chunks))
    /\ UNCHANGED <<args, today, archive, geometry, pc, dataset, original_dataset,
                   need_historical, start_date_date, end_date_date, bbox,
                   current_date, date_chunks, result, switches, probes, given>>
    /\ trail' = TrailAfter
    /\ UNCHANGED <<handler, invocation, session_timeout, writers, suspended>>

\* lines 558-565
FetchExit ==
    /\ pc = "fetch"
    /\ ~CellsLeft
    /\ IF all_results = <<>>
       THEN pc' = "aborted" /\ result' = ReturnNone
       ELSE pc' = "geofence" /\ result' = result
    /\ UNCHANGED <<args, today, archive, geometry, dataset, original_dataset,
                   need_historical, start_date_date, end_date_date, bbox,
                   current_date, date_chunks, cell, all_results, requests,
                   responses, switches, probes, given>>
    /\ trail' = TrailAfter
    /\ UNCHANGED <<handler, invocation, session_timeout, writers, suspended>>

\* lines 567-638
GeofenceStage ==
    /\ pc = "geofence"
    /\ LET kept == Geofence(all_results, bbox, args.country,
                            args.use_strict_country_filtering, geometry)
       IN  IF kept = <<>>
           THEN pc' = "aborted" /\ result' = ReturnNone /\ all_results' = all_results
           ELSE pc' = "cluster" /\ result' = result /\ all_results' = kept
    /\ UNCHANGED <<args, today, archive, geometry, dataset, original_dataset,
                   need_historical, start_date_date, end_date_date, bbox,
                   current_date, date_chunks, cell, requests, responses, switches,
                   probes, given>>
    /\ trail' = TrailAfter
    /\ UNCHANGED <<handler, invocation, session_timeout, writers, suspended>>

\* lines 640-647
ClusterStage ==
    /\ pc = "cluster"
    /\ all_results' = LabelStage(all_results, args.use_clustering, args.category,
                                 args.eps, args.min_samples, bbox,
                                 args.max_time_diff_days)
    /\ pc' = "spatial_join"
    /\ UNCHANGED <<args, today, archive, geometry, dataset, original_dataset,
                   need_historical, start_date_date, end_date_date, bbox,
                   current_date, date_chunks, cell, result, requests, responses,
                   switches, probes, given>>
    /\ trail' = TrailAfter
    /\ UNCHANGED <<handler, invocation, session_timeout, writers, suspended>>

\* osm_handler.py, lines 157 and 193-205: the column 'osm_match' is added,
\* True for the rows within 10 km of an OSM feature of the category (matched:
\* their positions), False for the others
SetOsmMatch(df, matched) ==
    [i \in 1..Len(df) |-> [df[i] EXCEPT !.osm_match = Some(i \in matched)]]

\* result_df[result_df['osm_match'] == True]
OsmMatched(df) ==
    LET Hit(r) == r.osm_match = Some(TRUE)
    IN  SelectSeq(df, Hit)

\* variant of SpatialJoin: only matched rows are kept, even when there is none
SpatialJoin_OnlyMatched(df, category, matched) ==
    IF category \in {"flares", "volcanoes"}
    THEN OsmMatched(SetOsmMatch(df, matched))
    ELSE df

\* OSMHandler.spatial_join: for flares and volcanoes the rows within 10 km of
\* an OSM feature of the category when there is any, else every row, with
\* the column 'osm_match'; the table as it is for the other categories
SpatialJoin(df, category, matched) ==
    IF category \in {"flares", "volcanoes"}
    THEN IF matched # {}
         THEN OsmMatched(SetOsmMatch(df, matched))
         ELSE SetOsmMatch(df, matched)
    ELSE df

\* lines 649-671
JoinAndReturn ==
    /\ pc = "spatial_join"
    /\ \E matched \in SUBSET (1..Len(all_results)) :
         LET joined == SpatialJoin(all_results, args.category, matched)
         IN  /\ all_results' = joined
             /\ IF joined = <<>>
                THEN pc' = "aborted" /\ result' = ReturnNone
                ELSE pc' = "done" /\ result' = ReturnTable(joined)
    /\ UNCHANGED <<args, today, archive, geometry, dataset, original_dataset,
                   need_historical, start_date_date, end_date_date, bbox,
                   current_date, date_chunks, cell, requests, responses, switches,
                   probes, given>>
    /\ trail' = TrailAfter
    /\ UNCHANGED <<handler, invocation, session_timeout, writers, suspended>>

Next ==
    \/ ResolveDataset
    \/ ClampRange
    \/ ResolveBbox
    \/ Probe
    \/ PlanChunk
    \/ PlanExit
    \/ FetchCell
    \/ FetchExit
    \/ GeofenceStage
    \/ ClusterStage
    \/ JoinAndReturn

-----------------------------------------------------------------------------
(* Inputs                                                                   *)

Row(id, lat, lon, d) ==
    [id |-> id, latitude |-> lat, longitude |-> lon, acq_date |-> d,
     acq_date_dtype |-> "object", day_num |-> None, cluster |-> None,
     osm_match |-> None]

\* the rows of cands at the positions in S, in order
RECURSIVE Pick(_, _)
Pick(cands, S) ==
    IF S = {} THEN <<>>
    ELSE LET last == CHOOSE i \in S : \A j \in S : j <= i
         IN  Append(Pick(cands, S \ {last}), cands[last])

\* the tables of at most k rows taken from cands
Tables(cands, k) ==
    {Pick(cands, S) : S \in {T \in SUBSET (1..Len(cands)) : Cardinality(T) <= k}}

Unavailable == [status |-> "unavailable", inside |-> {}]
Raises == [status |-> "raises", inside |-> {}]
Polygon(points) == [status |-> "polygon", inside |-> points]

\* the most rows the archive holds
MaxArchive == 2

\* 2025-03-24, the max_date of the NRT datasets
Today0 == 9214

\* detections in and around Afghanistan (bounding box 60.5,29.4,74.9,38.5) and
\* one on the edge shared by western and central Russia
RegionRows ==
    << Row(1, 36100, 70200, Today0 - 1),
       Row(2, 36105, 70200, Today0),
       Row(3, 30000, 61000, Today0 - 1),
       Row(4, 36100, 75000, Today0 - 1),
       Row(5, 55000, 60000, Today0 - 1) >>

\* border polygons: one holding rows 1 and 2, one holding no detection
Geometries ==
    {Unavailable, Raises, Polygon({<<70200, 36100>>, <<70200, 36105>>}),
     Polygon({})}

\* the arguments of a run over a short recent range (one chunk)
RecentRun(country, explicit, ds, category, use_clustering, strict) ==
    [country |-> country, bbox |-> explicit, dataset |-> ds,
     start_date |-> Some(Today0 - 3), end_date |-> Some(Today0),
     category |-> category, use_clustering |-> use_clustering,
     eps |-> 10, min_samples |-> 2, chunk_days |-> 7,
     max_time_diff_days |-> 5,
     use_strict_country_filtering |-> strict]

\* runs over a short recent range: every region with one fetch box (with and
\* without an explicit bounding box), flag, category and border geometry; for
\* Russia (three fetch boxes) fires without strict filtering
Init ==
    \/ \E country \in {"Afghanistan", "India", "Narnia"},
          explicit \in {None, <<60000, 29000, 75000, 39000>>},
          ds \in {VIIRS_NOAA20_NRT, <<"BOGUS">>},
          category \in {"fires", "raw data", "flares"},
          use_clustering \in BOOLEAN,
          strict \in BOOLEAN,
          arch \in Tables(RegionRows, MaxArchive),
          geom \in Geometries :
            Start(RecentRun(country, explicit, ds, category, use_clustering,
                            strict),
                  Today0, arch, geom)
    \/ \E explicit \in {None, <<60000, 29000, 75000, 39000>>},
          use_clustering \in BOOLEAN,
          arch \in Tables(RegionRows, MaxArchive) :
            Start(RecentRun("Russia", explicit, VIIRS_NOAA20_NRT, "fires",
                            use_clustering, FALSE),
                  Today0, arch, Unavailable)

Spec == Init /\ [][Next]_vars

-----------------------------------------------------------------------------
(* Properties of the whole run                                              *)

Labelled(r) == r.cluster # None /\ r.cluster[1] >= -1

\* C3 (as claimed): every value returned is the no-result value or a non-empty
\* table whose every row carries a cluster label >= -1, whatever use_clustering
\* and category are.
C3_ReturnsLabelledTable ==
    result.kind = "table" =>
        /\ result.rows # <<>>
        /\ \A i \in 1..Len(result.rows) : Labelled(result.rows[i])

\* C4 (as claimed): the stages follow one another in the order ResolvingRegion,
\* PlanningChunks, Probing, Fetching, Geofencing, Clustering, Done; Aborted is
\* entered only from ResolvingRegion, Probing or Fetching, so that no stage
\* after Fetching ends the run with the no-result value.
C4_ClaimedSteps ==
    { <<"ResolvingRegion", "PlanningChunks">>, <<"PlanningChunks", "Probing">>,
      <<"Probing", "Fetching">>, <<"Fetching", "Geofencing">>,
      <<"Geofencing", "Clustering">>, <<"Clustering", "Done">>,
      <<"ResolvingRegion", "Aborted">>, <<"Probing", "Aborted">>,
      <<"Fetching", "Aborted">> }

C4_CodeSteps ==
    { <<"ResolvingRegion", "Probing">>, <<"Probing", "PlanningChunks">>,
      <<"PlanningChunks", "Fetching">>, <<"Fetching", "Geofencing">>,
      <<"Geofencing", "Clustering">>, <<"Clustering", "Done">>,
      <<"ResolvingRegion", "Aborted">>, <<"Probing", "Aborted">>,
      <<"Fetching", "Aborted">>, <<"Geofencing", "Aborted">> }

C4_RowInBox(r) ==
    /\ bbox[1] <= r.longitude /\ r.longitude <= bbox[3]
    /\ bbox[2] <= r.latitude /\ r.latitude <= bbox[4]

C4_AbortedFrom(stage) ==
    /\ pc = "aborted"
    /\ Len(trail) >= 2
    /\ trail[Len(trail) - 1] = stage

C5_InBox(r) ==
    /\ bbox[1] <= r.longitude /\ r.longitude <= bbox[3]
    /\ bbox[2] <= r.latitude /\ r.latitude <= bbox[4]

C5_InPolygon(r) == <<r.longitude, r.latitude>> \in geometry.inside

C5_StrictAsked == args.use_strict_country_filtering /\ args.country # ""

C5_GeofenceContainment ==
    [][pc = "geofence" =>
        LET box_only == SelectSeq(all_results, C5_InBox)
            inside   == SelectSeq(box_only, C5_InPolygon)
            usable   == geometry.status = "polygon" /\ inside # <<>>
        IN  /\ box_only # <<>> => pc' = "cluster"
            /\ pc' = "cluster" =>
                 /\ \A i \in 1..Len(all_results') : C5_InBox(all_results'[i])
                 /\ (C5_StrictAsked /\ usable) =>
                        \A i \in 1..Len(all_results') : C5_InPolygon(all_results'[i])
                 /\ (C5_StrictAsked /\ ~usable) => all_results' = box_only
                 /\ ~C5_StrictAsked => all_results' = box_only
      ]_vars

\* strict filtering has dropped a row the archive returned inside the box
C5_Witness ==
    /\ pc = "cluster"
    /\ C5_StrictAsked
    /\ geometry.status = "polygon"
    /\ \E k \in 1..Len(responses) : \E j \in 1..Len(responses[k].rows) :
         LET r == responses[k].rows[j]
         IN  /\ C5_InBox(r)
             /\ ~C5_InPolygon(r)
             /\ \A i \in 1..Len(all_results) : all_results[i].id # r.id
    /\ all_results # <<>>

-----------------------------------------------------------------------------
(* Chunk planning                                                           *)

\* the run up to the end of chunk planning
NextPlan ==
    \/ ResolveDataset
    \/ ClampRange
    \/ ResolveBbox
    \/ Probe
    \/ PlanChunk
    \/ PlanExit

\* the largest chunk_days tried
MaxChunkDays == 12

\* start and end dates, in days before today (either may be the later one)
PlanOffsets == {0, 1, 9, 10, 11, 25}

InitPlan ==
    \E chunk_days \in 1..MaxChunkDays, s \in PlanOffsets, e \in PlanOffsets :
         Start([country |-> "Afghanistan", bbox |-> None,
                dataset |-> VIIRS_NOAA20_NRT,
                start_date |-> Some(Today0 - s), end_date |-> Some(Today0 - e),
                category |-> "fires", use_clustering |-> TRUE,
                eps |-> 10, min_samples |-> 2, chunk_days |-> chunk_days,
                max_time_diff_days |-> 5,
                use_strict_country_filtering |-> FALSE],
               Today0, <<>>, Unavailable)

SpecPlan == InitPlan /\ [][NextPlan]_vars

\* the days of a chunk
C1_Days(chunk) == chunk[1]..chunk[2]

\* C1: once the range is resolved, start <= end and the two dates are the
\* requested ones (swapped when start > end); once planning has ended, the
\* chunks are contiguous in order (each starts the day after the previous one
\* ends), pairwise disjoint, each of 1 to min(10, chunk_days) days, and the
\* union of their days is exactly the closed range [start, end].
C1_ChunkPlan ==
    /\ pc = "clamp_range" =>
         /\ start_date_date <= end_date_date
         /\ {start_date_date, end_date_date}
              = {args.start_date[1], args.end_date[1]}
    /\ pc = "fetch" =>
         LET n == Len(date_chunks)
             cap == IF args.chunk_days < 10 THEN args.chunk_days ELSE 10
         IN  /\ \A i \in 1..n :
                   /\ date_chunks[i][1] <= date_chunks[i][2]
                   /\ date_chunks[i][2] - date_chunks[i][1] + 1 <= cap
             /\ \A i \in 1..(n - 1) :
                   date_chunks[i + 1][1] = date_chunks[i][2] + 1
             /\ \A i, j \in 1..n :
                   i # j => C1_Days(date_chunks[i]) \cap C1_Days(date_chunks[j]) = {}
             /\ UNION {C1_Days(date_chunks[i]) : i \in 1..n}
                  = start_date_date..end_date_date

\* a swapped range of 26 days planned with chunk_days above the cap of 10:
\* three chunks, the last one shorter
C1_Witness ==
    /\ pc = "fetch"
    /\ args.start_date[1] > args.end_date[1]
    /\ args.chunk_days > 10
    /\ Len(date_chunks) = 3
    /\ date_chunks[3][2] - date_chunks[3][1] + 1 < 10

-----------------------------------------------------------------------------
(* Fetching chunk by chunk                                                  *)

\* the run up to the end of the fetch loops
NextFetch ==
    \/ ResolveDataset
    \/ ClampRange
    \/ ResolveBbox
    \/ Probe
    \/ PlanChunk
    \/ PlanExit
    \/ FetchCell
    \/ FetchExit

\* the most rows the archive holds in the fetch runs
MaxFetchArchive == 3

\* detections in Afghanistan on the first, an inner and the last day of the
\* chunks of a 25-day range
FetchRows ==
    << Row(1, 36100, 70200, Today0 - 24),
       Row(2, 36100, 70200, Today0 - 15),
       Row(3, 36100, 70200, Today0 - 14),
       Row(4, 36100, 70200, Today0 - 5),
       Row(5, 36100, 70200, Today0 - 4),
       Row(6, 36100, 70200, Today0) >>

\* detections in Russia: one on the meridian shared by the western and the
\* central box, one inside the central box on the last day
RussiaRows ==
    << Row(7, 55000, 60000, Today0 - 2),
       Row(8, 56000, 90000, Today0) >>

\* the arguments of a run of `country` from `start` to the current day, in
\* chunks of 10 days
FetchRun(country, start) ==
    [country |-> country, bbox |-> None, dataset |-> VIIRS_NOAA20_NRT,
     start_date |-> Some(start), end_date |-> Some(Today0),
     category |-> "fires", use_clustering |-> TRUE,
     eps |-> 10, min_samples |-> 2, chunk_days |-> 10,
     max_time_diff_days |-> 5,
     use_strict_country_filtering |-> FALSE]

\* Afghanistan over 25 days (three chunks of 10, 10 and 5 days), Russia over
\* 11 days (two chunks of 10 days and 1 day, three boxes)
InitFetch ==
    \/ \E arch \in Tables(FetchRows, MaxFetchArchive) :
          Start(FetchRun("Afghanistan", Today0 - 24), Today0, arch, Unavailable)
    \/ \E arch \in Tables(RussiaRows, MaxFetchArchive) :
          Start(FetchRun("Russia", Today0 - 10), Today0, arch, Unavailable)

SpecFetch == InitFetch /\ [][NextFetch]_vars

\* how many times row r occurs in table df
C2_Count(df, r) == Cardinality({i \in 1..Len(df) : df[i] = r})

\* how many times row r occurs among the rows that response k parsed to and
\* that lie in the dates of its chunk; none when the request failed
C2_Contribution(k, r) ==
    LET resp == responses[k]
    IN  IF resp.ok /\ resp.chunk[1] <= r.acq_date /\ r.acq_date <= resp.chunk[2]
        THEN C2_Count(resp.rows, r)
        ELSE 0

RECURSIVE C2_Sum(_, _)
C2_Sum(k, r) == IF k = 0 THEN 0 ELSE C2_Sum(k - 1, r) + C2_Contribution(k, r)

-----------------------------------------------------------------------------
(* Dataset resolution, range clamping and the fallback to the original      *)
(* dataset                                                                  *)

\* the days on which the runs are made: 2025-03-24 (the max_date of the NRT
\* datasets), 26 and 69 days later
Todays == {Today0, Today0 + 26, Today0 + 69}

\* the identifiers asked for: the registered ones, an unregistered NRT
\* variant and an unregistered identifier without variant
AskedDatasets ==
    {d.id : d \in DATASET_AVAILABILITY} \cup {<<"BOGUS", "_NRT">>, <<"BOGUS">>}

\* the ranges asked for on day t: start / end in days before t, the defaults
\* of both dates, and a range around the min_date of VIIRS_NOAA20_SP
AskedRanges(t) ==
    {<<Some(t - s), Some(t - e)>> : s \in {0, 7, 30, 31, 33, 60}, e \in {0, 29, 31}}
      \cup {<<None, None>>, <<Some(6661), Some(6669)>>}

InitResolve ==
    \E t \in Todays, ds \in AskedDatasets :
      \E range \in AskedRanges(t) :
         Start([country |-> "Afghanistan", bbox |-> None, dataset |-> ds,
                start_date |-> range[1], end_date |-> range[2],
                category |-> "fires", use_clustering |-> TRUE,
                eps |-> 10, min_samples |-> 2, chunk_days |-> 10,
                max_time_diff_days |-> 5,
                use_strict_country_filtering |-> FALSE],
               t, <<>>, Unavailable)

SpecResolve == InitResolve /\ [][NextFetch]_vars

\* the dates asked for, a missing one replaced by its default
C8_AskedStart == IF args.start_date = None THEN today - 7 ELSE args.start_date[1]
C8_AskedEnd == IF args.end_date = None THEN today ELSE args.end_date[1]

\* the range asked for after the swap
C8_Start == IF C8_AskedStart > C8_AskedEnd THEN C8_AskedEnd ELSE C8_AskedStart
C8_End == IF C8_AskedStart > C8_AskedEnd THEN C8_AskedStart ELSE C8_AskedEnd

\* the identifier names an NRT variant
C8_IsNRT(id) == id # <<>> /\ id[Len(id)] = "_NRT"

\* the SP counterpart of an NRT identifier
C8_Counterpart(id) == SubSeq(id, 1, Len(id) - 1) \o <<"_SP">>

C8_RegisteredSP(id) ==
    /\ id[Len(id)] = "_SP"
    /\ \E d \in DATASET_AVAILABILITY : d.id = id

\* C8: right after dataset resolution, the effective identifier differs from
\* the requested one exactly when today - start > 30 days and the requested
\* one is an NRT variant; it is then the registered SP counterpart, or
\* VIIRS_SNPP_SP when no counterpart is registered, a registered SP identifier
\* in both cases; otherwise it is the requested identifier.  The effective
\* identifier is a function of the requested one, start and today alone.
C8_Resolution ==
    (pc = "clamp_range" \/ (pc = "aborted" /\ Len(trail) = 2 /\ probes = <<>>
                              /\ bbox = None /\ requests = <<>>
                              /\ ~Registered(dataset))) =>
        LET substituted == today - C8_Start > 30 /\ C8_IsNRT(args.dataset)
        IN  /\ (dataset # args.dataset) <=> substituted
            /\ substituted =>
                 /\ C8_RegisteredSP(dataset)
                 /\ IF C8_RegisteredSP(C8_Counterpart(args.dataset))
                    THEN dataset = C8_Counterpart(args.dataset)
                    ELSE dataset = <<"VIIRS_SNPP", "_SP">>
            /\ ~substituted => dataset = args.dataset
            /\ original_dataset = args.dataset

\* a start exactly 31 days back with an NRT identifier that has no registered
\* SP counterpart: the run goes on with VIIRS_SNPP_SP
C8_Witness ==
    /\ pc = "clamp_range"
    /\ today - C8_Start = 31
    /\ args.dataset = <<"LANDSAT", "_NRT">>
    /\ dataset = <<"VIIRS_SNPP", "_SP">>

\* C9 (as claimed): after clamping, min_date <= start' <= end' <= max_date for
\* the effective dataset, and a range asked for inside [min_date, max_date] is
\* left as it is.
C9_ClampedInsideAndOrdered ==
    pc = "resolve_bbox" =>
        LET avail == CHOOSE d \in DATASET_AVAILABILITY : d.id = dataset
        IN  /\ avail.min_date <= start_date_date
            /\ start_date_date <= end_date_date
            /\ end_date_date <= avail.max_date
            /\ (avail.min_date <= C8_Start /\ C8_End <= avail.max_date) =>
                   (start_date_date = C8_Start /\ end_date_date = C8_End)

\* C10 (as claimed): the run switches back to the original identifier exactly
\* when the first test call parsed to an empty table, substitution occurred and
\* the original dataset's max_date is within 30 days of the range asked for;
\* the switch and its second test call happen at most once, and after a switch
\* every chunk request names the original identifier.
C10_Substituted == today - C8_Start > 30 /\ C8_IsNRT(original_dataset)

C10_MaxDateNearWindow ==
    \E d \in DATASET_AVAILABILITY :
        /\ d.id = original_dataset
        /\ d.max_date >= C8_Start - 30
        /\ d.max_date <= C8_End + 30

C10_SwitchedOnlyOnceAndFor(condition) ==
    /\ switches <= 1
    /\ Len(probes) <= 2
    /\ probes # <<>> =>
         /\ (switches = 1) <=> (probes[1] /\ C10_Substituted /\ condition)
         /\ Len(probes) = 1 + switches
    /\ switches = 1 =>
         /\ dataset = original_dataset
         /\ \A k \in 1..Len(requests) :
              requests[k].kind = "chunk" => requests[k].dataset = original_dataset

C10_AsClaimed == C10_SwitchedOnlyOnceAndFor(C10_MaxDateNearWindow)

\* C10 (amended): the run switches back to the original identifier exactly
\* when the first test call parsed to an empty table, substitution occurred and
\* the clamped end date is less than 30 days before today; the switch and its
\* second test call happen at most once, and after a switch every chunk request
\* names the original identifier.
C10_FallbackRule == C10_SwitchedOnlyOnceAndFor(end_date_date - today > -30)

\* a run that switched back and then sent a chunk request
C10_Witness ==
    /\ switches = 1
    /\ \E k \in 1..Len(requests) : requests[k].kind = "chunk"

-----------------------------------------------------------------------------
(* _apply_dbscan called on a table                                          *)

\* one call: the table in all_results is replaced by the table returned
ApplyDbscanCall ==
    /\ pc = "call_apply_dbscan"
    /\ all_results' = ApplyDbscan(all_results, args.eps, args.min_samples, bbox,
                                  args.max_time_diff_days)
    /\ given' = all_results
    /\ pc' = "apply_dbscan_returned"
    /\ UNCHANGED <<args, today, archive, geometry, dataset, original_dataset,
                   need_historical, start_date_date, end_date_date, bbox,
                   current_date, date_chunks, cell, result, requests, responses,
                   switches, probes, trail>>
    /\ UNCHANGED <<handler, invocation, session_timeout, writers, suspended>>

NextCluster == ApplyDbscanCall

\* the most rows of the table clustered
MaxRows == 3

\* the largest min_samples tried
MaxMinSamples == 3

\* detections at one place 0, 1, 3 and 50 days after the first, one 0.005
\* degrees north of it, one far away, one east of Afghanistan's box
ClusterRows ==
    << Row(1, 36100, 70200, Today0 - 50),
       Row(2, 36100, 70200, Today0 - 49),
       Row(3, 36100, 70200, Today0 - 47),
       Row(4, 36100, 70200, Today0),
       Row(5, 36105, 70200, Today0 - 50),
       Row(6, 30000, 61000, Today0 - 50),
       Row(7, 36100, 75000, Today0 - 50) >>

\* the state a direct call of _apply_dbscan(df, eps, min_samples, bbox,
\* max_time_diff_days) starts in
InitCluster ==
    \E df \in Tables(ClusterRows, MaxRows) \ {<<>>},
       min_samples \in 1..MaxMinSamples,
       bb \in {None, COUNTRY_BBOXES("Afghanistan")} :
         /\ args = [country |-> "", bbox |-> bb, dataset |-> VIIRS_NOAA20_NRT,
                    start_date |-> None, end_date |-> None,
                    category |-> "fires", use_clustering |-> TRUE,
                    eps |-> 10, min_samples |-> min_samples, chunk_days |-> 10,
                    max_time_diff_days |-> 5,
                    use_strict_country_filtering |-> FALSE]
         /\ today = Today0
         /\ archive = <<>>
         /\ geometry = Unavailable
         /\ pc = "call_apply_dbscan"
         /\ dataset = VIIRS_NOAA20_NRT
         /\ original_dataset = VIIRS_NOAA20_NRT
         /\ need_historical = FALSE
         /\ start_date_date = 0
         /\ end_date_date = 0
         /\ bbox = bb
         /\ current_date = 0
         /\ date_chunks = <<>>
         /\ cell = <<1, 1>>
         /\ all_results = df
         /\ result = NotReturned
         /\ requests = <<>>
         /\ responses = <<>>
         /\ switches = 0
         /\ probes = <<>>
         /\ given = <<>>
         /\ trail = <<>>
         /\ handler = 1
         /\ invocation = 1
         /\ session_timeout = NoTimeoutSet
         /\ writers = NoWriters
         /\ suspended = None

SpecCluster == InitCluster /\ [][NextCluster]_vars

\* the label of row i of the table returned
C6_Label(i) == all_results[i].cluster[1]

\* C6 (as claimed): two detections at the same latitude and longitude whose
\* dates differ by at most max_time_diff_days days are placed in the same
\* cluster when the two of them satisfy min_samples; two whose dates differ by
\* 50 days are placed in different clusters.
C6_TogetherWithinMaxTimeDiff ==
    pc = "apply_dbscan_returned" =>
        \A i, j \in 1..Len(all_results) :
            LET a == all_results[i]
                b == all_results[j]
                d == IF a.acq_date >= b.acq_date THEN a.acq_date - b.acq_date
                     ELSE b.acq_date - a.acq_date
                same_place == a.latitude = b.latitude /\ a.longitude = b.longitude
            IN  /\ (i # j /\ same_place /\ d <= args.max_time_diff_days
                      /\ args.min_samples <= 2) =>
                       (C6_Label(i) >= 0 /\ C6_Label(i) = C6_Label(j))
                /\ (Len(all_results) = 2 /\ same_place /\ d = 50) =>
                       ~(C6_Label(i) >= 0 /\ C6_Label(i) = C6_Label(j))

\* the part of C6 the code does meet: together one day apart, apart 50 days
\* apart (two rows alone, eps = 0.01, max_time_diff_days = 5)
C6_OneDayAndFiftyDays ==
    (pc = "apply_dbscan_returned" /\ Len(all_results) = 2
       /\ all_results[1].latitude = all_results[2].latitude
       /\ all_results[1].longitude = all_results[2].longitude
       /\ args.min_samples <= 2) =>
        LET d == all_results[2].acq_date - all_results[1].acq_date
        IN  /\ d = 1 => (C6_Label(1) >= 0 /\ C6_Label(1) = C6_Label(2))
            /\ d = 50 => ~(C6_Label(1) >= 0 /\ C6_Label(1) = C6_Label(2))

\* the 3-vector of row i of the table returned, in units of 0.001: latitude,
\* longitude, day offset (from the earliest row) x max_time_diff_days
C7_Vector(i) ==
    LET first_day == CHOOSE d \in {all_results[k].acq_date : k \in 1..Len(all_results)} :
                         \A k \in 1..Len(all_results) : d <= all_results[k].acq_date
    IN  <<all_results[i].latitude, all_results[i].longitude,
          (all_results[i].acq_date - first_day) * args.max_time_diff_days>>

C7_Within(i, j) ==
    LET u == C7_Vector(i)
        v == C7_Vector(j)
    IN  (u[1] - v[1]) * (u[1] - v[1]) + (u[2] - v[2]) * (u[2] - v[2])
          + (u[3] - v[3]) * (u[3] - v[3]) <= args.eps * args.eps

C7_CorePoint(i) ==
    Cardinality({j \in 1..Len(all_results) : C7_Within(i, j)}) >= args.min_samples

\* the core points linked to those of S by chains of core points whose
\* consecutive distances are at most eps
RECURSIVE C7_Chain(_)
C7_Chain(S) ==
    LET more == {c \in 1..Len(all_results) :
                    C7_CorePoint(c) /\ \E x \in S : C7_Within(x, c)}
    IN  IF more \subseteq S THEN S ELSE C7_Chain(S \cup more)

C7_DensityConnected(i, j) ==
    \E c \in 1..Len(all_results) :
        /\ C7_CorePoint(c)
        /\ C7_Within(i, c)
        /\ \E e \in C7_Chain({c}) : C7_Within(e, j)

\* C7: in the table returned, every row has exactly one label, an integer
\* >= -1; two rows with the same label >= 0 are density-connected; a row is
\* labelled -1 exactly when it is not a core point and not within eps of one.
C7_DensityClusters ==
    pc = "apply_dbscan_returned" =>
        /\ \A i \in 1..Len(all_results) :
              Len(all_results[i].cluster) = 1 /\ C6_Label(i) >= -1
        /\ \A i, j \in 1..Len(all_results) :
              (C6_Label(i) >= 0 /\ C6_Label(i) = C6_Label(j)) =>
                  C7_DensityConnected(i, j)
        /\ \A i \in 1..Len(all_results) :
              (C6_Label(i) = -1) <=>
                  (~C7_CorePoint(i)
                     /\ \A c \in 1..Len(all_results) :
                          C7_CorePoint(c) => ~C7_Within(i, c))

\* three rows at one place, 0, 1 and 3 days: only the middle one is a core
\* point for min_samples = 3, the outer ones are not within eps of each other,
\* and all three are in one cluster
C7_Witness ==
    /\ pc = "apply_dbscan_returned"
    /\ args.min_samples = 3
    /\ Len(all_results) = 3
    /\ C7_CorePoint(2) /\ ~C7_CorePoint(1) /\ ~C7_CorePoint(3)
    /\ ~C7_Within(1, 3)
    /\ C6_Label(1) = 0 /\ C6_Label(2) = 0 /\ C6_Label(3) = 0

-----------------------------------------------------------------------------
(* The cells of a run: requests, answers, order                             *)

\* the chunk requests of the run, in the order they were issued; the k-th
\* one got the k-th response
C11_ChunkRequests ==
    LET IsChunk(req) == req.kind = "chunk"
    IN  SelectSeq(requests, IsChunk)

\* the archive did not over-return in space: every answer holds only rows
\* inside the box that was asked for
C11_AnswersInsideBox ==
    \A k \in 1..Len(responses) : \A j \in 1..Len(responses[k].rows) :
        LET r == responses[k].rows[j]
            b == C11_ChunkRequests[k].bbox
        IN  b[1] <= r.longitude /\ r.longitude <= b[3]
              /\ b[2] <= r.latitude /\ r.latitude <= b[4]

\* C11 (as claimed): when every answer holds only rows of the box asked for,
\* no detection of the archive occurs more than once in the aggregated table,
\* whatever days the archive over-returns and wherever the detection lies,
\* the shared edge of two sub-boxes included.
C11_NoDetectionTwice ==
    C11_AnswersInsideBox =>
        \A i, j \in 1..Len(all_results) :
            all_results[i] = all_results[j] => i = j

\* the part of C11 the code does meet: every row of the aggregate is dated
\* inside the chunk of the cell that contributed it, so a run with one fetch
\* box holds no detection twice
C11_OneBoxNoDetectionTwice ==
    (C11_AnswersInsideBox /\ Len(Boxes) = 1) =>
        \A i, j \in 1..Len(all_results) :
            all_results[i] = all_results[j] => i = j

\* C12 (as claimed): on every fetch path, a request that raises (transport
\* error, non-2xx status) or whose body holds the marker "Invalid" or the
\* marker "Error" adds no row to the aggregate, and the run goes on to the
\* next cell instead of ending.
C12_FailedChunkAddsNothing ==
    [][(Len(responses') = Len(responses) + 1
          /\ responses'[Len(responses')].fault # "none") =>
            /\ all_results' = all_results
            /\ pc' = "fetch"
            /\ cell' # cell
      ]_vars

\* the part of C12 the code does meet: a request that raises or whose body
\* holds "Invalid" adds nothing on any path, one whose body holds "Error" adds
\* nothing outside the three boxes of Russia, and the run goes on in each case
C12_FailedChunkAddsNothingButRussia ==
    [][(Len(responses') = Len(responses) + 1
          /\ responses'[Len(responses')].fault # "none") =>
            /\ (responses'[Len(responses')].fault = "failed"
                  \/ args.country # "Russia") => all_results' = all_results
            /\ pc' = "fetch"
            /\ cell' # cell
      ]_vars

\* the cell <<box, chunk>> of the k-th chunk request when the cells are taken
\* box by box and, within a box, chunk by chunk in date order
C13_Cell(k) ==
    <<((k - 1) \div Len(date_chunks)) + 1, ((k - 1) % Len(date_chunks)) + 1>>

\* the boxes of the run: the three sub-boxes of Russia, else the run's box
C13_Boxes ==
    IF args.country = "Russia"
    THEN << <<19250, 41151, 60000, 81200>>, <<60000, 41151, 120000, 81200>>,
            <<120000, 41151, 180000, 81200>> >>
    ELSE <<bbox>>

\* C13: during and after the fetch loops, every chunk request issued has got
\* its outcome before the next one is issued; the k-th request is for the k-th
\* cell in order (all chunks of a box in date order, then the next box), so no
\* cell is requested twice; and whatever the outcome of the last request, the
\* next request is for the following cell.
C13_CellsInOrderOnce ==
    (pc \in {"fetch", "geofence", "aborted"} /\ date_chunks # <<>>) =>
        LET reqs == C11_ChunkRequests
        IN  /\ Len(reqs) = Len(responses)
            /\ Len(reqs) <= Len(C13_Boxes) * Len(date_chunks)
            /\ \A k \in 1..Len(reqs) :
                  /\ reqs[k].bbox = C13_Boxes[C13_Cell(k)[1]]
                  /\ responses[k].chunk = date_chunks[C13_Cell(k)[2]]
            /\ pc = "fetch" => cell = C13_Cell(Len(reqs) + 1)

\* Russia, two chunks: the first request failed, the second one was for the
\* second chunk of the western box, the third for the first chunk of the
\* central box
C13_Witness ==
    /\ pc = "fetch"
    /\ args.country = "Russia"
    /\ Len(date_chunks) = 2
    /\ Len(responses) = 3
    /\ responses[1].fault = "failed"
    /\ responses[2].chunk = date_chunks[2]
    /\ C11_ChunkRequests[2].bbox = <<19250, 41151, 60000, 81200>>
    /\ C11_ChunkRequests[3].bbox = <<60000, 41151, 120000, 81200>>
    /\ responses[3].chunk = date_chunks[1]

-----------------------------------------------------------------------------
(* Aborts and the probe                                                     *)

\* the identifier the run goes on with after dataset resolution
C14_EffectiveDataset ==
    IF today - C8_Start > 30 /\ C8_IsNRT(args.dataset)
    THEN IF C8_RegisteredSP(C8_Counterpart(args.dataset))
         THEN C8_Counterpart(args.dataset)
         ELSE <<"VIIRS_SNPP", "_SP">>
    ELSE args.dataset

C14_UnknownDataset ==
    ~(\E d \in DATASET_AVAILABILITY : d.id = C14_EffectiveDataset)

\* no explicit box, and a country that is no key of COUNTRY_BBOXES
C14_UnknownRegion ==
    args.bbox = None /\ args.country \notin {"Afghanistan", "India", "Russia"}

C15_NoCellYields ==
    \A k \in 1..Len(responses) :
        \/ ~responses[k].ok
        \/ \A j \in 1..Len(responses[k].rows) :
              LET d == responses[k].rows[j].acq_date
              IN  d < responses[k].chunk[1] \/ d > responses[k].chunk[2]

\* C15: as long as no cell has yielded a row the aggregate is empty and the
\* run does not go on to the geofence or return a table; a run that ends
\* after the fetch loops with an empty aggregate has requested every cell
\* (boxes x chunks) and returns the no-result value.
C15_EmptyRunAttemptsAllCells ==
    /\ C15_NoCellYields =>
          /\ all_results = <<>>
          /\ pc \notin {"geofence", "cluster", "spatial_join", "done"}
          /\ result.kind # "table"
    /\ C4_AbortedFrom("Fetching") =>
          /\ C15_NoCellYields
          /\ Len(responses) = Len(C13_Boxes) * Len(date_chunks)
          /\ Len(C11_ChunkRequests) = Len(responses)
          /\ result = ReturnNone

\* a run over Russia ended with 'no records' after its six cells, some of
\* which failed and some of which were answered without rows
C15_Witness ==
    /\ C4_AbortedFrom("Fetching")
    /\ Len(responses) = 6
    /\ \E k \in 1..6 : ~responses[k].ok
    /\ \E k \in 1..6 : responses[k].ok /\ responses[k].fault = "none"
    /\ archive # <<>>

\* the first test call parsed to an empty table and no second test call
\* found records
C16_ProbeFoundNothing ==
    /\ probes # <<>>
    /\ probes[1]
    /\ Len(probes) = 2 => probes[2]

\* C16 (as claimed): the first request of a run is the probe, and a run whose
\* probe returned a valid body with zero records (no second test call of the
\* original dataset finding records) issues no chunk request and ends with the
\* no-result value.
C16_EmptyProbeEndsRun ==
    /\ requests # <<>> => requests[1].kind = "probe"
    /\ C16_ProbeFoundNothing =>
          /\ C11_ChunkRequests = <<>>
          /\ pc # "done"
          /\ pc = "aborted" => result = ReturnNone

\* the part of C16 the code does meet: the probe is the first request, and a
\* run whose second test call (of the original dataset) is empty as well ends
\* with the no-result value without any chunk request
C16_ProbeFirstEmptyReprobeEnds ==
    /\ requests # <<>> => requests[1].kind = "probe"
    /\ (Len(probes) = 2 /\ probes[2]) =>
          /\ C11_ChunkRequests = <<>>
          /\ pc = "aborted"
          /\ result = ReturnNone

-----------------------------------------------------------------------------
(* Boxes and timeouts of the requests                                       *)

\* C17 (as claimed): in a run given an explicit bounding box, every request
\* (probe and chunk) names that box and the geofence filters by it, whatever
\* country is given as well, a large or partitioned one included.
C17_ExplicitBoxWins ==
    args.bbox # None =>
        /\ bbox = args.bbox
        /\ \A k \in 1..Len(requests) : requests[k].bbox = args.bbox

\* the part of C17 the code does meet: the probe and the geofence use the
\* explicit box for every country, the chunk requests for every country but
\* Russia
C17_ExplicitBoxWinsButRussia ==
    args.bbox # None =>
        /\ bbox = args.bbox
        /\ \A k \in 1..Len(requests) :
              (requests[k].kind = "probe" \/ args.country # "Russia") =>
                  requests[k].bbox = args.bbox

\* the countries flagged large
C18_Large ==
    args.country \in {"United States", "China", "Russia", "Canada", "Brazil",
                      "Australia", "India"}

\* C18 (as claimed): every chunk request of a run for a large country has the
\* extended timeout, twice the default one; every other request has the
\* default timeout; no request has a third value.
C18_TwoTimeouts ==
    \A k \in 1..Len(requests) :
        /\ requests[k].timeout \in {default_timeout, 2 * default_timeout}
        /\ (requests[k].kind = "chunk" /\ C18_Large) =>
               requests[k].timeout = 2 * default_timeout
        /\ ~(requests[k].kind = "chunk" /\ C18_Large) =>
               requests[k].timeout = default_timeout

\* the part of C18 the code does meet: the claim with the chunk requests of
\* Russia left out
C18_TwoTimeoutsButRussia ==
    \A k \in 1..Len(requests) :
        (requests[k].kind = "probe" \/ args.country # "Russia") =>
            /\ (requests[k].kind = "chunk" /\ C18_Large) =>
                   requests[k].timeout = 2 * default_timeout
            /\ ~(requests[k].kind = "chunk" /\ C18_Large) =>
                   requests[k].timeout = default_timeout

-----------------------------------------------------------------------------
(* Tables too small to cluster, and the order of the rows                   *)

\* row r with the noise label
C19_Noise(r) == [r EXCEPT !.cluster = <<-1>>]

\* the rows of the table given that lie inside the box given (all of them
\* when no box is given)
C19_InsideBox ==
    LET Inside(r) == bbox = None
                       \/ (bbox[1] <= r.longitude /\ r.longitude <= bbox[3]
                             /\ bbox[2] <= r.latitude /\ r.latitude <= bbox[4])
    IN  SelectSeq(given, Inside)

\* C19: a call given fewer than min_samples rows returns those rows, each
\* labelled -1; a call whose table has fewer than min_samples rows left after
\* the bounding-box filter returns the rows left, each labelled -1.
C19_TooFewRowsAllNoise ==
    pc = "apply_dbscan_returned" =>
        /\ Len(given) < args.min_samples =>
              all_results = [i \in 1..Len(given) |-> C19_Noise(given[i])]
        /\ (Len(given) >= args.min_samples
              /\ Len(C19_InsideBox) < args.min_samples) =>
              all_results = [i \in 1..Len(C19_InsideBox) |->
                                 C19_Noise(C19_InsideBox[i])]

\* two rows given for min_samples = 3, one of them outside the box: both are
\* returned as noise
C19_Witness ==
    /\ pc = "apply_dbscan_returned"
    /\ args.min_samples = 3
    /\ Len(given) = 2
    /\ Len(C19_InsideBox) = 1
    /\ Len(all_results) = 2
    /\ \A i \in 1..2 : all_results[i].cluster = <<-1>>

\* the orders in which the rows of a table can be presented
Orders(df) ==
    {[i \in 1..Len(df) |-> df[f[i]]] : f \in Permutations(1..Len(df))}

\* a second call of _apply_dbscan with the same arguments on the rows of the
\* first call's table (without labels), in any order; its table is kept in
\* `result`
ApplyDbscanAgain ==
    /\ pc = "apply_dbscan_returned"
    /\ \E df \in Orders(given) :
         /\ given' = df
         /\ result' = ReturnTable(ApplyDbscan(df, args.eps, args.min_samples,
                                              bbox, args.max_time_diff_days))
    /\ pc' = "apply_dbscan_returned_again"
    /\ UNCHANGED <<args, today, archive, geometry, dataset, original_dataset,
                   need_historical, start_date_date, end_date_date, bbox,
                   current_date, date_chunks, cell, all_results, requests,
                   responses, switches, probes, trail>>
    /\ UNCHANGED <<handler, invocation, session_timeout, writers, suspended>>

NextOrder ==
    \/ ApplyDbscanCall
    \/ ApplyDbscanAgain

\* the most rows of the tables clustered twice
MaxOrderRows == 7

\* detections of one day, from south to north: a group around row 2, a
\* group around row 6, and row 4 between them, 0.009 degrees from row 2 and
\* from row 6 and further than eps = 0.01 from every other row
OrderRows ==
    << Row(1, 36091, 70200, Today0),
       Row(2, 36100, 70200, Today0),
       Row(3, 36095, 70208, Today0),
       Row(4, 36109, 70200, Today0),
       Row(5, 36123, 70208, Today0),
       Row(6, 36118, 70200, Today0),
       Row(7, 36127, 70200, Today0) >>

InitOrder ==
    \E df \in Tables(OrderRows, MaxOrderRows) \ {<<>>}, min_samples \in {2, 4} :
         /\ args = [country |-> "", bbox |-> None, dataset |-> VIIRS_NOAA20_NRT,
                    start_date |-> None, end_date |-> None,
                    category |-> "fires", use_clustering |-> TRUE,
                    eps |-> 10, min_samples |-> min_samples, chunk_days |-> 10,
                    max_time_diff_days |-> 5,
                    use_strict_country_filtering |-> FALSE]
         /\ today = Today0
         /\ archive = <<>>
         /\ geometry = Unavailable
         /\ pc = "call_apply_dbscan"
         /\ dataset = VIIRS_NOAA20_NRT
         /\ original_dataset = VIIRS_NOAA20_NRT
         /\ need_historical = FALSE
         /\ start_date_date = 0
         /\ end_date_date = 0
         /\ bbox = None
         /\ current_date = 0
         /\ date_chunks = <<>>
         /\ cell = <<1, 1>>
         /\ all_results = df
         /\ result = NotReturned
         /\ requests = <<>>
         /\ responses = <<>>
         /\ switches = 0
         /\ probes = <<>>
         /\ given = <<>>
         /\ trail = <<>>
         /\ handler = 1
         /\ invocation = 1
         /\ session_timeout = NoTimeoutSet
         /\ writers = NoWriters
         /\ suspended = None

SpecOrder == InitOrder /\ [][NextOrder]_vars

\* the label the detection `id` has in table df
C20_Label(df, id) ==
    (CHOOSE r \in {df[i] : i \in 1..Len(df)} : r.id = id).cluster[1]

\* detections a and b are in one cluster of table df
C20_Together(df, a, b) ==
    C20_Label(df, a) >= 0 /\ C20_Label(df, a) = C20_Label(df, b)

C20_Ids == {all_results[i].id : i \in 1..Len(all_results)}

\* C20 (as claimed): two calls with the same eps, min_samples and
\* max_time_diff_days on the same detections, presented in any two orders,
\* give the same partition: the same detections are noise, and the same
\* detections are together in a cluster.
C20_SamePartitionInAnyOrder ==
    pc = "apply_dbscan_returned_again" =>
        /\ \A a \in C20_Ids :
              (C20_Label(all_results, a) = -1) <=> (C20_Label(result.rows, a) = -1)
        /\ \A a, b \in C20_Ids :
              C20_Together(all_results, a, b) <=> C20_Together(result.rows, a, b)

\* the part of C20 the code does meet: the same rows in the same order get
\* the same labels, and in any order the same detections are noise
C20_SameOrderSameLabels ==
    pc = "apply_dbscan_returned_again" =>
        /\ (\A i \in 1..Len(given) : given[i].id = all_results[i].id) =>
               result.rows = all_results
        /\ \A a \in C20_Ids :
              (C20_Label(all_results, a) = -1) <=> (C20_Label(result.rows, a) = -1)

-----------------------------------------------------------------------------
(* The multi-day filter of main (app/main.py, revision 20250323154444)      *)

\* the state a direct call of _apply_dbscan on table df starts in, for the
\* arguments a (a.bbox is the box given to the call)
DirectCall(a, df) ==
    /\ args = a
    /\ today = Today0
    /\ archive = <<>>
    /\ geometry = Unavailable
    /\ pc = "call_apply_dbscan"
    /\ dataset = a.dataset
    /\ original_dataset = a.dataset
    /\ need_historical = FALSE
    /\ start_date_date = 0
    /\ end_date_date = 0
    /\ bbox = a.bbox
    /\ current_date = 0
    /\ date_chunks = <<>>
    /\ cell = <<1, 1>>
    /\ all_results = df
    /\ result = NotReturned
    /\ requests = <<>>
    /\ responses = <<>>
    /\ switches = 0
    /\ probes = <<>>
    /\ given = <<>>
    /\ trail = <<>>
    /\ handler = 1
    /\ invocation = 1
    /\ session_timeout = NoTimeoutSet
    /\ writers = NoWriters
    /\ suspended = None

\* results[results['cluster'] >= 0].groupby('cluster')['acq_date'].nunique():
\* the distinct dates of the rows labelled c
ClusterDates(results, c) ==
    {results[i].acq_date : i \in {k \in 1..Len(results) : results[k].cluster = <<c>>}}

\* cluster_days[cluster_days > 1].index.tolist()
MultidayClusters(results) ==
    {c \in {results[i].cluster[1] : i \in 1..Len(results)} :
        c >= 0 /\ Cardinality(ClusterDates(results, c)) > 1}

\* main, lines 273-307: the table stored in the session
MultiDayFilter(results, show_multiday_only) ==
    LET multiday_clusters == MultidayClusters(results)
        Kept(r) == r.cluster[1] \in multiday_clusters
    IN  IF show_multiday_only /\ results # <<>>
        THEN IF multiday_clusters # {} THEN SelectSeq(results, Kept) ELSE results
        ELSE results

\* lines 273-310: the labelled table goes through the filter and is stored
MultiDayStep ==
    /\ pc = "apply_dbscan_returned"
    /\ result' = ReturnTable(MultiDayFilter(all_results, args.show_multiday_only))
    /\ pc' = "results_stored"
    /\ UNCHANGED <<args, today, archive, geometry, dataset, original_dataset,
                   need_historical, start_date_date, end_date_date, bbox,
                   current_date, date_chunks, cell, all_results, requests,
                   responses, switches, probes, given, trail>>
    /\ UNCHANGED <<handler, invocation, session_timeout, writers, suspended>>

NextMultiDay ==
    \/ ApplyDbscanCall
    \/ MultiDayStep

\* tables of detections labelled with every min_samples, then filtered with
\* the check box on and off
InitMultiDay ==
    \E df \in Tables(ClusterRows, MaxRows) \ {<<>>},
       min_samples \in 1..MaxMinSamples,
       show_multiday_only \in BOOLEAN :
         DirectCall([country |-> "", bbox |-> None, dataset |-> VIIRS_NOAA20_NRT,
                     start_date |-> None, end_date |-> None,
                     category |-> "fires", use_clustering |-> TRUE,
                     eps |-> 10, min_samples |-> min_samples, chunk_days |-> 7,
                     max_time_diff_days |-> 5,
                     use_strict_country_filtering |-> FALSE,
                     show_multiday_only |-> show_multiday_only],
                    df)

SpecMultiDay == InitMultiDay /\ [][NextMultiDay]_vars

\* the dates of the rows of the labelled table that carry label c
C21_Dates(c) ==
    {all_results[i].acq_date :
        i \in {k \in 1..Len(all_results) : all_results[k].cluster[1] = c}}

\* row r belongs to a cluster whose members span more than one date
C21_InMultiDayCluster(r) ==
    r.cluster[1] >= 0 /\ Cardinality(C21_Dates(r.cluster[1])) > 1

\* C21 (as claimed): with the multi-day filter on, the table stored holds
\* exactly the rows of the clusters (label >= 0) whose members span more than
\* one distinct date, with their labels as they were - no noise row and no row
\* of a single-date cluster remains, also when no cluster spans more than one
\* date.
C21_OnlyMultiDayClusters ==
    (pc = "results_stored" /\ args.show_multiday_only) =>
        result.rows = SelectSeq(all_results, C21_InMultiDayCluster)

\* the part of C21 the code does meet: when some cluster spans more than one
\* date the table stored holds exactly the rows of such clusters, labels
\* unchanged; when none does, the table is stored as it was
C21_MultiDayClustersWhenAny ==
    (pc = "results_stored" /\ args.show_multiday_only) =>
        LET multi == SelectSeq(all_results, C21_InMultiDayCluster)
        IN  /\ multi # <<>> => result.rows = multi
            /\ multi = <<>> => result.rows = all_results

-----------------------------------------------------------------------------
(* What the stages after fetching do to the detections                      *)

\* table `after` holds only rows of table `before`, each exactly as it was
C22_OnlyDrops(before, after) ==
    /\ Len(after) <= Len(before)
    /\ \A i \in 1..Len(after) : \E j \in 1..Len(before) : before[j] = after[i]

\* C22 (as claimed): after fetching, the geofence only drops rows (its output
\* is a subset of its input with every field unchanged), and the clusterer
\* only assigns labels: it returns the rows it was given, drops none, and adds
\* or changes no field other than the cluster label.
C22_OnlyLabelChanges ==
    [][/\ pc = "geofence" => C22_OnlyDrops(all_results, all_results')
       /\ pc = "cluster" =>
            /\ Len(all_results') = Len(all_results)
            /\ \A i \in 1..Len(all_results) :
                  all_results'[i]
                    = [all_results[i] EXCEPT !.cluster = all_results'[i].cluster]
      ]_vars

\* the part of C22 the code does meet: the geofence only drops rows; the
\* clusterer returns the rows it was given in their order, drops none, and
\* leaves identifier, latitude, longitude and the day of the acquisition date
\* as they were
C22_RowsAndPositionsKept ==
    [][/\ pc = "geofence" => C22_OnlyDrops(all_results, all_results')
       /\ pc = "cluster" =>
            /\ Len(all_results') = Len(all_results)
            /\ \A i \in 1..Len(all_results) :
                  /\ all_results'[i].id = all_results[i].id
                  /\ all_results'[i].latitude = all_results[i].latitude
                  /\ all_results'[i].longitude = all_results[i].longitude
                  /\ all_results'[i].acq_date = all_results[i].acq_date
      ]_vars

-----------------------------------------------------------------------------
(* The registered dataset table                                             *)

\* the entries of the table whose identifier is id
C23_Entries(id) == {d \in DATASET_AVAILABILITY : d.id = id}

\* C23 (as claimed): in the registered dataset table, every NRT identifier has
\* a registered SP counterpart (same name with _NRT replaced by _SP) whose
\* minimum date is earlier than the NRT minimum date and whose maximum date is
\* earlier than the NRT maximum date.  Stated of the identifier a run is asked
\* for, every registered identifier being asked for by some run.
C23_EveryNRTHasEarlierSP ==
    \A nrt \in DATASET_AVAILABILITY :
        (C8_IsNRT(nrt.id) /\ nrt.id = args.dataset) =>
            \E sp \in C23_Entries(C8_Counterpart(nrt.id)) :
                /\ sp.min_date < nrt.min_date
                /\ sp.max_date < nrt.max_date

\* the part of C23 the code does meet: an identifier has one entry; an SP
\* counterpart that is registered has an earlier minimum date than its NRT
\* identifier and no later maximum date
C23_RegisteredSPStartsEarlier ==
    /\ \A d \in DATASET_AVAILABILITY : Cardinality(C23_Entries(d.id)) = 1
    /\ \A nrt \in DATASET_AVAILABILITY :
          C8_IsNRT(nrt.id) =>
              \A sp \in C23_Entries(C8_Counterpart(nrt.id)) :
                  /\ sp.min_date < nrt.min_date
                  /\ sp.max_date <= nrt.max_date

-----------------------------------------------------------------------------
(* Two calls of fetch_fire_data running interleaved                         *)

\* the local variables of the running call, with the handler it is made on
Locals ==
    [args |-> args, pc |-> pc, dataset |-> dataset,
     original_dataset |-> original_dataset, need_historical |-> need_historical,
     start_date_date |-> start_date_date, end_date_date |-> end_date_date,
     bbox |-> bbox, current_date |-> current_date, date_chunks |-> date_chunks,
     cell |-> cell, all_results |-> all_results, result |-> result,
     requests |-> requests, responses |-> responses, switches |-> switches,
     probes |-> probes, given |-> given, trail |-> trail,
     handler |-> handler, invocation |-> invocation]

\* the locals of call i of fetch_fire_data with arguments a on handler h, at
\* its start
InitialLocals(a, h, i) ==
    [args |-> a, pc |-> "resolve_dataset", dataset |-> a.dataset,
     original_dataset |-> a.dataset, need_historical |-> FALSE,
     start_date_date |-> 0, end_date_date |-> 0,
     bbox |-> a.bbox, current_date |-> 0, date_chunks |-> <<>>,
     cell |-> <<1, 1>>, all_results |-> <<>>, result |-> NotReturned,
     requests |-> <<>>, responses |-> <<>>, switches |-> 0,
     probes |-> <<>>, given |-> <<>>, trail |-> <<"ResolvingRegion">>,
     handler |-> h, invocation |-> i]

\* the locals l are those of the running call
Running(l) ==
    /\ args = l.args
    /\ pc = l.pc
    /\ dataset = l.dataset
    /\ original_dataset = l.original_dataset
    /\ need_historical = l.need_historical
    /\ start_date_date = l.start_date_date
    /\ end_date_date = l.end_date_date
    /\ bbox = l.bbox
    /\ current_date = l.current_date
    /\ date_chunks = l.date_chunks
    /\ cell = l.cell
    /\ all_results = l.all_results
    /\ result = l.result
    /\ requests = l.requests
    /\ responses = l.responses
    /\ switches = l.switches
    /\ probes = l.probes
    /\ given = l.given
    /\ trail = l.trail
    /\ handler = l.handler
    /\ invocation = l.invocation

\* the scheduler lets the other call run: its locals come back as they were
\* left, the attributes of the handler objects stay as they are
Switch ==
    /\ suspended # None
    /\ suspended' = Some(Locals)
    /\ args' = suspended[1].args
    /\ pc' = suspended[1].pc
    /\ dataset' = suspended[1].dataset
    /\ original_dataset' = suspended[1].original_dataset
    /\ need_historical' = suspended[1].need_historical
    /\ start_date_date' = suspended[1].start_date_date
    /\ end_date_date' = suspended[1].end_date_date
    /\ bbox' = suspended[1].bbox
    /\ current_date' = suspended[1].current_date
    /\ date_chunks' = suspended[1].date_chunks
    /\ cell' = suspended[1].cell
    /\ all_results' = suspended[1].all_results
    /\ result' = suspended[1].result
    /\ requests' = suspended[1].requests
    /\ responses' = suspended[1].responses
    /\ switches' = suspended[1].switches
    /\ probes' = suspended[1].probes
    /\ given' = suspended[1].given
    /\ trail' = suspended[1].trail
    /\ handler' = suspended[1].handler
    /\ invocation' = suspended[1].invocation
    /\ UNCHANGED <<today, archive, geometry, session_timeout, writers>>

NextInterleaved ==
    \/ ResolveDataset
    \/ ClampRange
    \/ ResolveBbox
    \/ Probe
    \/ PlanChunk
    \/ PlanExit
    \/ FetchCell
    \/ FetchExit
    \/ GeofenceStage
    \/ ClusterStage
    \/ JoinAndReturn
    \/ Switch

\* two calls for different requests: the first for Afghanistan or India, the
\* second for India over another range, on the same handler object or on one
\* of its own; the archive holds one detection inside both boxes
InitInterleaved ==
    \E country \in {"Afghanistan", "India"}, h \in Handlers :
        /\ Running(InitialLocals(
               RecentRun(country, None, VIIRS_NOAA20_NRT, "fires", TRUE, FALSE),
               1, 1))
        /\ suspended = Some(InitialLocals(
               [RecentRun("India", None, VIIRS_NOAA20_NRT, "fires", TRUE, FALSE)
                   EXCEPT !.start_date = Some(Today0 - 1)],
               h, 2))
        /\ today = Today0
        /\ archive = <<RegionRows[1]>>
        /\ geometry = Unavailable
        /\ session_timeout = NoTimeoutSet
        /\ writers = NoWriters

SpecInterleaved == InitInterleaved /\ [][NextInterleaved]_vars

\* the locals of the two calls, whichever is running
C24_Calls == {Locals} \cup {suspended[i] : i \in 1..Len(suspended)}

\* the calls that have sent a request through the session of handler h
C24_SessionUsers(h) ==
    {c.invocation : c \in {k \in C24_Calls : k.handler = h /\ k.requests # <<>>}}

\* C24 (as claimed): when two calls run interleaved, no mutable state written
\* by one of them is read or written by the other: the timeout setting of an
\* HTTP session that one call has assigned is neither assigned by the other
\* call nor the setting of a session the other call sends its requests
\* through.
C24_NoStateShared ==
    \A h \in Handlers :
        writers[h] # {} => Cardinality(writers[h] \cup C24_SessionUsers(h)) <= 1

\* the part of C24 the code does meet: two calls made on handler objects of
\* their own share no session and no timeout setting; made on one handler
\* object or not, every row of a call's accumulator comes from an answer to
\* one of its own requests, its requests name its own dataset selection, and
\* the timeout of each of its requests is the one given with the request,
\* whatever session.timeout has been set to
C24_IsolatedOnOwnHandlers ==
    /\ (\A c, d \in C24_Calls : c.invocation # d.invocation => c.handler # d.handler)
          => \A h \in Handlers :
                 Cardinality(writers[h] \cup C24_SessionUsers(h)) <= 1
    /\ \A c \in C24_Calls :
          /\ \A k \in 1..Len(c.requests) :
                c.requests[k].timeout
                  = IF c.requests[k].kind = "chunk" /\ c.args.country = "India"
                    THEN 120 ELSE 60
          /\ \A k \in 1..Len(c.requests) :
                c.requests[k].dataset \in {c.dataset, c.original_dataset}
          /\ \A i \in 1..Len(c.all_results) :
                \E k \in 1..Len(c.responses) :
                    \E j \in 1..Len(c.responses[k].rows) :
                        c.responses[k].rows[j].id = c.all_results[i].id

-----------------------------------------------------------------------------
(* The call with default arguments (tests/test_firms_handler.py)            *)

\* fetch_fire_data(country=country, dataset='VIIRS_NOAA20_NRT',
\* category='fires'): every other argument has the default of lines 136-148
DefaultRun(country) ==
    [country |-> country, bbox |-> None, dataset |-> VIIRS_NOAA20_NRT,
     start_date |-> None, end_date |-> None,
     category |-> "fires", use_clustering |-> TRUE,
     eps |-> 10, min_samples |-> 5, chunk_days |-> 7,
     max_time_diff_days |-> 5,
     use_strict_country_filtering |-> FALSE]

\* calls with default arguments for a known country, on the max_date of the
\* NRT datasets and on the day after it
InitDefault ==
    \E country \in {"Afghanistan", "India"},
       t \in {Today0, Today0 + 1},
       arch \in Tables(RegionRows, MaxArchive) :
         Start(DefaultRun(country), t, arch, Unavailable)

SpecDefault == InitDefault /\ [][Next]_vars

\* the country's name is one of the values put into the URL of request req
C25_UrlNamesCountry(req) == \E i \in 1..Len(req.url) : req.url[i] = "country"

C25_UrlHasKey(req) == \E i \in 1..Len(req.url) : req.url[i] = "api_key"

\* C25 (as claimed): a call for a known country with an NRT dataset and no
\* start or end date issues exactly one archive request over the whole run,
\* whose URL contains the API key and the country name, and returns every row
\* of the successful response with its columns unchanged.
C25_OneRequestAllRowsReturned ==
    /\ Len(requests) <= 1
    /\ \A k \in 1..Len(requests) :
          C25_UrlHasKey(requests[k]) /\ C25_UrlNamesCountry(requests[k])
    /\ pc = "done" =>
          /\ Len(requests) = 1
          /\ \E k \in 1..Len(responses) : responses[k].ok /\ result.rows = responses[k].rows

\* the part of C25 the code does meet: every URL contains the API key (and
\* the bounding box of the country, not its name); a run that gets as far as
\* the chunk loops has sent the test call first and then one request per
\* chunk of the last 8 days (two chunks, or one when the end is clamped); a
\* row returned comes from the answer to one of the chunk requests
C25_ProbeThenChunkRequests ==
    /\ \A k \in 1..Len(requests) :
          /\ C25_UrlHasKey(requests[k])
          /\ ~C25_UrlNamesCountry(requests[k])
          /\ requests[k].kind = (IF k = 1 THEN "probe" ELSE "chunk")
    /\ pc \in {"geofence", "cluster", "spatial_join", "done"} =>
          Len(requests) = 1 + Len(date_chunks) /\ Len(date_chunks) \in {1, 2}
    /\ pc = "done" =>
          \A i \in 1..Len(result.rows) :
              \E k \in 1..Len(responses) : \E j \in 1..Len(responses[k].rows) :
                  responses[k].rows[j].id = result.rows[i].id

-----------------------------------------------------------------------------
(* The country-to-bbox table                                                *)

\* the bounding boxes written for country c in the country-to-bbox table
C26_Registered(c) ==
    {COUNTRY_BBOXES_items[i].value :
        i \in {k \in 1..Len(COUNTRY_BBOXES_items) : COUNTRY_BBOXES_items[k].key = c}}

\* C26 (as claimed): for a run without explicit box, get_country_bbox(country)
\* gives the single bounding box registered for the country (for Afghanistan
\* "60.52,29.31,75.15,38.48") and None for a country that is not registered;
\* each country name has exactly one registered bounding box.
C26_TheRegisteredBox ==
    [][(pc = "resolve_bbox" /\ args.bbox = None /\ args.country # "") =>
          /\ Cardinality(C26_Registered(args.country)) <= 1
          /\ C26_Registered(args.country) = {} => bbox' = None
          /\ C26_Registered(args.country) # {} => bbox' \in C26_Registered(args.country)
          /\ args.country = "Afghanistan" => bbox' = <<60520, 29310, 75150, 38480>>
      ]_vars

\* the part of C26 the code does meet: the box is one written for the country
\* in the table - for Afghanistan, written twice, the later one,
\* "60.5,29.4,74.9,38.5" - and None for a country that is not in the table
C26_LastRegisteredBox ==
    [][(pc = "resolve_bbox" /\ args.bbox = None /\ args.country # "") =>
          /\ C26_Registered(args.country) = {} => bbox' = None
          /\ C26_Registered(args.country) # {} => bbox' \in C26_Registered(args.country)
          /\ args.country = "Afghanistan" => bbox' = <<60500, 29400, 74900, 38500>>
      ]_vars

-----------------------------------------------------------------------------
(* The aggregate of a run whose requests are all answered exactly           *)

\* the most rows the archive holds in the runs over the ranges below
MaxRangeArchive == 2

\* detections in Afghanistan 35, 18, 16 and 1 days before the current day,
\* and one east of the bounding box 18 days before it
RangeRows ==
    << Row(1, 36100, 70200, Today0 - 35),
       Row(2, 36100, 70200, Today0 - 18),
       Row(3, 36100, 70200, Today0 - 16),
       Row(4, 36100, 70200, Today0 - 1),
       Row(5, 36100, 75000, Today0 - 18) >>

\* ranges <<days back of the start, days back of the end>>: the last days,
\* six days three weeks back, 25 days in three chunks, and two ranges that
\* start more than 30 days back (historical substitution)
Ranges == {<<3, 0>>, <<20, 15>>, <<24, 0>>, <<40, 33>>, <<35, 16>>}

InitRange ==
    \E range \in Ranges, arch \in Tables(RangeRows, MaxRangeArchive) :
        Start([FetchRun("Afghanistan", Today0 - range[1])
                  EXCEPT !.end_date = Some(Today0 - range[2])],
              Today0, arch, Unavailable)

SpecRange == InitRange /\ [][NextFetch]_vars

\* the first and the last day request req asks for: day-count days from its
\* start date, or the most recent day-count days
C27_FirstDay(req) == IF req.date = <<>> THEN today - req.days + 1 ELSE req.date[1]
C27_LastDay(req) == C27_FirstDay(req) + req.days - 1

\* the rows the archive holds for the box and the days of request req
C27_Held(req) ==
    LET Asked(r) == /\ req.bbox[1] <= r.longitude /\ r.longitude <= req.bbox[3]
                    /\ req.bbox[2] <= r.latitude /\ r.latitude <= req.bbox[4]
                    /\ C27_FirstDay(req) <= r.acq_date
                    /\ r.acq_date <= C27_LastDay(req)
    IN  SelectSeq(archive, Asked)

\* no chunk request has failed and each was answered with exactly the rows
\* the archive holds for it
C27_AllAnsweredExactly ==
    \A k \in 1..Len(responses) :
        /\ responses[k].ok
        /\ responses[k].fault = "none"
        /\ responses[k].rows = C27_Held(C11_ChunkRequests[k])

\* the archive rows inside the run's bounding box dated within the effective
\* range
C27_Expected ==
    {archive[i] : i \in {k \in 1..Len(archive) :
        /\ bbox[1] <= archive[k].longitude /\ archive[k].longitude <= bbox[3]
        /\ bbox[2] <= archive[k].latitude /\ archive[k].latitude <= bbox[4]
        /\ start_date_date <= archive[k].acq_date
        /\ archive[k].acq_date <= end_date_date}}

\* the fetch loops have ended
C27_FetchEnded ==
    /\ pc = "fetch"
    /\ Len(responses) = Len(C13_Boxes) * Len(date_chunks)

\* C27 (as claimed): if no request fails and the archive answers each request
\* with exactly the rows it holds for the requested box and days, the
\* aggregate at the end of the fetch loops is exactly the set of archive rows
\* inside the region's bounding box dated within the effective range, for
\* every effective range and whether or not historical substitution occurred.
C27_AggregateIsArchiveInRange ==
    (C27_FetchEnded /\ C27_AllAnsweredExactly) =>
        {all_results[i] : i \in 1..Len(all_results)} = C27_Expected

\* the part of C27 the code does meet: the claim for the runs whose requests
\* all carry a start date, and for the runs whose range lies within the most
\* recent 7 days
C27_AggregateIsArchiveInRangeWhenDated ==
    (C27_FetchEnded /\ C27_AllAnsweredExactly
       /\ (start_date_date >= today - 6
             \/ \A k \in 1..Len(C11_ChunkRequests) :
                   C11_ChunkRequests[k].date # <<>>)) =>
        {all_results[i] : i \in 1..Len(all_results)} = C27_Expected

-----------------------------------------------------------------------------
(* Raising max_time_diff_days                                               *)

\* the largest "Max Days Between Events" (the slider of main goes from 1 to 10)
MaxTimeDiff == 10

\* a second call of _apply_dbscan on the table of the first call with the same
\* eps and min_samples and a max_time_diff_days that is not smaller; its table
\* is kept in `result`
ApplyDbscanRaised ==
    /\ pc = "apply_dbscan_returned"
    /\ \E m \in args.max_time_diff_days..MaxTimeDiff :
         /\ args' = [args EXCEPT !.max_time_diff_days = m]
         /\ result' = ReturnTable(ApplyDbscan(given, args.eps, args.min_samples,
                                              bbox, m))
    /\ pc' = "apply_dbscan_returned_raised"
    /\ UNCHANGED <<today, archive, geometry, dataset, original_dataset,
                   need_historical, start_date_date, end_date_date, bbox,
                   current_date, date_chunks, cell, all_results, requests,
                   responses, switches, probes, given, trail>>
    /\ UNCHANGED <<handler, invocation, session_timeout, writers, suspended>>

NextRaise ==
    \/ ApplyDbscanCall
    \/ ApplyDbscanRaised

InitRaise ==
    \E df \in Tables(ClusterRows, MaxRows) \ {<<>>},
       min_samples \in 1..MaxMinSamples,
       m \in 1..MaxTimeDiff :
         DirectCall([country |-> "", bbox |-> None, dataset |-> VIIRS_NOAA20_NRT,
                     start_date |-> None, end_date |-> None,
                     category |-> "fires", use_clustering |-> TRUE,
                     eps |-> 10, min_samples |-> min_samples, chunk_days |-> 7,
                     max_time_diff_days |-> m,
                     use_strict_country_filtering |-> FALSE],
                    df)

SpecRaise == InitRaise /\ [][NextRaise]_vars

\* C28 (as claimed): for fixed detections, eps and min_samples, raising
\* max_time_diff_days never splits a cluster: two detections with the same
\* cluster label under m are in the same cluster under every m' >= m.
C28_RaisingNeverSplits ==
    pc = "apply_dbscan_returned_raised" =>
        \A a, b \in C20_Ids :
            C20_Together(all_results, a, b) => C20_Together(result.rows, a, b)

\* the part of C28 the code does meet, the other way round: two detections
\* that are in the same cluster under m' >= m are in the same cluster under
\* m, a larger max_time_diff_days stretching the day axis
C28_RaisingNeverMerges ==
    pc = "apply_dbscan_returned_raised" =>
        \A a, b \in C20_Ids :
            C20_Together(result.rows, a, b) => C20_Together(all_results, a, b)

-----------------------------------------------------------------------------
(* The OSM spatial join                                                     *)

\* row r is flagged as within 10 km of an OSM feature of the category
C29_Matched(r) == r.osm_match = <<TRUE>>

\* C29 (as claimed): for category 'flares' or 'volcanoes', every row the OSM
\* spatial join returns has osm_match true; when no detection matches any
\* feature the join returns no rows and the run ends with the no-result
\* value.
C29_JoinKeepsOnlyMatched ==
    [][(pc = "spatial_join" /\ args.category \in {"flares", "volcanoes"}) =>
          /\ \A i \in 1..Len(all_results') : C29_Matched(all_results'[i])
          /\ all_results' = <<>> => (pc' = "aborted" /\ result' = ReturnNone)
          /\ all_results' # <<>> => result' = ReturnTable(all_results')
      ]_vars

\* the part of C29 the code does meet: when some detection matches a feature
\* the join returns the matching rows only, each with osm_match true; when
\* none does it returns every row it was given, each with osm_match false,
\* and the run returns that table
C29_JoinKeepsMatchedIfAny ==
    [][(pc = "spatial_join" /\ args.category \in {"flares", "volcanoes"}) =>
          /\ \/ \A i \in 1..Len(all_results') : C29_Matched(all_results'[i])
             \/ /\ Len(all_results') = Len(all_results)
                /\ \A i \in 1..Len(all_results') :
                      /\ all_results'[i].osm_match = <<FALSE>>
                      /\ all_results'[i].id = all_results[i].id
          /\ all_results' # <<>>
          /\ result' = ReturnTable(all_results')
      ]_vars

-----------------------------------------------------------------------------
(* chunk_days of every sign                                                 *)

\* the values of chunk_days tried: negative, zero, one, the default and the
\* cap of 10
ChunkDaysTried == {-2, -1, 0, 1, 7, 10}

\* runs over the last 2 and the last 3 days with every chunk_days tried, the
\* archive holding at most one detection
InitChunkDays ==
    \E chunk_days \in ChunkDaysTried, back \in {1, 2},
       arch \in Tables(RegionRows, 1) :
         Start([FetchRun("Afghanistan", Today0 - back)
                   EXCEPT !.chunk_days = chunk_days],
               Today0, arch, Unavailable)

\* one thread runs the call to its end: a step that can be taken is taken,
\* every request returning, failing or timing out
SpecChunkDays == InitChunkDays /\ [][Next]_vars /\ WF_vars(Next)

\* C30 (as claimed): for every date range and every integer chunk_days (the
\* default 7, and also 0 and negative values), chunk planning terminates with
\* a finite list of chunks: every turn of the planning loop moves the current
\* date forward, so that the loop ends within as many turns as the range has
\* days.
C30_PlanningAdvances ==
    [][(pc = "plan_chunks" /\ pc' = "plan_chunks") =>
          /\ current_date' > current_date
          /\ Len(date_chunks') <= end_date_date - start_date_date + 1
      ]_vars

\* the part of C30 the code does meet: for chunk_days >= 1 every turn of the
\* planning loop moves the current date forward and the list has at most as
\* many chunks as the range has days
C30_PlanningAdvancesWhenPositive ==
    [][(pc = "plan_chunks" /\ pc' = "plan_chunks" /\ args.chunk_days >= 1) =>
          /\ current_date' > current_date
          /\ Len(date_chunks') <= end_date_date - start_date_date + 1
      ]_vars

\* and for chunk_days >= 1 the run then reaches Done or Aborted
C30_EndsWhenPositive ==
    (args.chunk_days >= 1) ~> (pc \in {"done", "aborted"})

=============================================================================
